---- MODULE Spec2Model ----
(***************************************************************************)
(* Maestra core: the fleet-manager's entity state writes, entity           *)
(* hierarchy, ephemeral stream registry / negotiator with its session      *)
(* history, stream preview and routing tables, and the MQTT-NATS bridge.   *)
(*                                                                         *)
(* One specification per subsystem; the variables of the other subsystems  *)
(* stay at their initial value:                                            *)
(*   Spec        one state-write request (PATCH / PUT / bulk) at a time    *)
(*   SpecConc    two state-write requests in flight on the same entity     *)
(*   SpecHier    entity create / re-parent / delete                        *)
(*   SpecStream  stream advertise / heartbeat / withdraw / negotiation,    *)
(*               with the ephemeral store's TTL clock                      *)
(*   SpecHistory the stream routes that log sessions, and the history      *)
(*               tasks they start                                          *)
(*   SpecRoute   routing devices, routes and presets                       *)
(*   SpecBridge  the two callbacks of the MQTT-NATS bridge                 *)
(*   SpecPreview the stream preview next to advertise, heartbeat, withdraw *)
(*   SpecPreviewClock the receive loop of a preview proxy by the clock     *)
(*   SpecHttp    the dispatch of a request to a route of a router          *)
(***************************************************************************)
EXTENDS Integers, Sequences, FiniteSets, TLC

VARIABLES
    entState,   \* entities.state of each entity row (committed)
    history,    \* entity_states rows (committed), oldest first
    nats,       \* messages published on the subject tree, oldest first
    mqtt,       \* messages published on the topic tree, oldest first
    req,        \* the state-write request of each client slot
    entState0,  \* entState as it was before the first request (never written)
    entities,   \* the entities table of the hierarchy: id -> row
    usedIds,    \* the entity ids uuid4 has handed out
    hresp,      \* the latest hierarchy request and its response
    streams,          \* ephemeral store: stream:{id} hashes
    streamTtl,        \* seconds until each stream:{id} key expires
    streamsAll,       \* the set streams:all
    streamsByType,    \* the sets streams:by_type:{stream_type}
    sessions,         \* ephemeral store: session:{id} hashes
    sessionTtl,       \* seconds until each session:{id} key expires
    sessionsAll,      \* the set sessions:all
    sessionsByStream, \* the sets sessions:by_stream:{stream_id}
    calls,            \* the stream-manager coroutines that are at an await
    sresp,            \* what the latest step has returned, if it ended a call
    streamCount,      \* number of stream ids uuid4 has handed out
    sessionCount,     \* number of session ids uuid4 has handed out
    fresh,            \* history, per stream advertised and not withdrawn: seconds
                      \* since the advertise or the latest heartbeat
    lapsed,           \* history: the streams that went STREAM_TTL seconds without
                      \* heartbeat
    tasks,            \* the history tasks made with create_task: task -> position
    stream_sessions,  \* durable history: the stream_sessions row of each session_id
    routing_devices,  \* the routing_devices table: id -> row
    routes,           \* the routes table: row -> number of rows with these values
    route_presets,    \* the route_presets table: id -> row
    rresp,            \* the latest routing request and the status it was answered with
    relay,            \* the bridge: the message its latest callback was given
    preview,          \* the run of the stream preview: the route and its generator
    http              \* the latest HTTP request and the endpoint it was dispatched to

\* The state-write handlers append to nats and mqtt.  A hierarchy handler
\* replaces them by what it publishes, and every step of the stream subsystem
\* replaces nats by what it publishes: the logs show the fan-out of the latest
\* step.
stateVars == <<entState, history, req, entState0>>
hierVars == <<entities, usedIds, hresp>>
storeVars == <<streams, streamTtl, streamsAll, streamsByType,
               sessions, sessionTtl, sessionsAll, sessionsByStream>>
streamVars == <<storeVars, calls, sresp, streamCount, sessionCount, fresh, lapsed>>
logVars == <<tasks, stream_sessions>>
routeVars == <<routing_devices, routes, route_presets, rresp>>
relayVars == <<relay>>
previewVars == <<preview>>
httpVars == <<http>>
vars == <<entState, history, nats, mqtt, req, entState0, entities, usedIds, hresp,
          streams, streamTtl, streamsAll, streamsByType,
          sessions, sessionTtl, sessionsAll, sessionsByStream,
          calls, sresp, streamCount, sessionCount, fresh, lapsed,
          tasks, stream_sessions,
          routing_devices, routes, route_presets, rresp, relay, preview, http>>

(***************************************************************************)
(* JSON values.  Every value is a record of the same shape so that any two *)
(* values can be compared: t is the JSON type, n the number (a Python bool *)
(* is the int 0 or 1), o the members of an object.                         *)
(***************************************************************************)
EmptyDict == <<>>
None == [t |-> "null", n |-> 0, o |-> EmptyDict]
Num(i) == [t |-> "num", n |-> i, o |-> EmptyDict]
PyTrue == [t |-> "bool", n |-> 1, o |-> EmptyDict]
Obj(d) == [t |-> "obj", n |-> 0, o |-> d]

\* isinstance(v, dict)
IsDict(v) == v.t = "obj"

\* every dict with keys among K and values among V
DictsOver(K, V) == UNION {[S -> V] : S \in SUBSET K}

\* dict.get(key): None when the key is absent
Get(d, key) == IF key \in DOMAIN d THEN d[key] ELSE None

\* d[key] = value
Put(d, key, value) ==
    [x \in DOMAIN d \cup {key} |-> IF x = key THEN value ELSE d[x]]

\* Python's == on decoded JSON: bool is an int (True == 1), dicts compare
\* key set and values, None equals only None.
RECURSIVE PyEq(_, _)
PyEq(v, w) ==
    CASE v.t = "obj" /\ w.t = "obj" ->
            /\ DOMAIN v.o = DOMAIN w.o
            /\ \A k \in DOMAIN v.o : PyEq(v.o[k], w.o[k])
      [] v.t \in {"num", "bool"} /\ w.t \in {"num", "bool"} -> v.n = w.n
      [] v.t = "null" /\ w.t = "null" -> TRUE
      [] OTHER -> FALSE

Keys == {"a", "b"}
InnerDicts == DictsOver({"x"}, {None, Num(1)}) \cup DictsOver({"y"}, {Num(1)})
Values == {None, Num(1), PyTrue} \cup {Obj(d) : d \in InnerDicts}
\* the request bodies and stored states of the sequential specification
Dicts == DictsOver(Keys, Values)
\* the request bodies and stored states of the concurrent specification
FlatDicts == DictsOver(Keys, {None, Num(1)})

(***************************************************************************)
(* entity_router.py: deep merge; state_manager.py: changed keys            *)
(***************************************************************************)
\* dict.update: a nested object of the update replaces the stored one
deep_merge_shallow(base, update) ==
    [k \in DOMAIN base \cup DOMAIN update |->
        IF k \in DOMAIN update THEN update[k] ELSE base[k]]

\* result = base.copy(); for key, value in update.items(): ...
RECURSIVE deep_merge(_, _)
deep_merge(base, update) ==
    LET RECURSIVE Items(_, _)
        Items(result, keys) ==
            IF keys = {} THEN result
            ELSE LET key == CHOOSE k \in keys : TRUE
                     value == update[key]
                     merged ==
                        IF /\ key \in DOMAIN result
                           /\ IsDict(result[key])
                           /\ IsDict(value)
                        THEN Obj(deep_merge(result[key].o, value.o))
                        ELSE value
                 IN  Items(Put(result, key, merged), keys \ {key})
    IN  Items(base, DOMAIN update)

\* all_keys = set(previous) | set(current); previous.get(key) != current.get(key)
compute_changed_keys(previous, current) ==
    {key \in DOMAIN previous \cup DOMAIN current :
        ~PyEq(Get(previous, key), Get(current, key))}

(***************************************************************************)
(* The durable catalog of the state-write specifications: two entities     *)
(* that exist throughout, and one slug / id that names no entity.          *)
(***************************************************************************)
Slots == {1, 2}
Ents == {"e1", "e2"}
Missing == "nope"
TypeOf(e) == IF e = "e1" THEN "light" ELSE "knob"
Verbosities == {"minimal", "standard", "verbose"}

IdleReq ==
    [pc |-> "idle", kind |-> "none", target |-> "", body |-> EmptyDict,
     items |-> <<>>, prev |-> EmptyDict, new |-> EmptyDict, changed |-> {},
     verbosity |-> "", histFail |-> FALSE, natsFailAt |-> 4, mqttFailAt |-> 4,
     resp |-> 0, results |-> EmptyDict, commits |-> <<>>]

(***************************************************************************)
(* analytics_router.py: the collection_config table and the verbosity      *)
(* lookup.  A row is (scope_type, scope_id, verbosity); PUT /config        *)
(* accepts only the three scope types and the three verbosity levels.      *)
(***************************************************************************)
NoDevice == "nodevice"
NoScope == "noscope"
DeviceOf(e) == IF e = "e1" THEN "dev1" ELSE NoDevice

CollectionRows ==
    {[scope_type |-> "device", scope_id |-> "dev1", verbosity |-> "verbose"],
     [scope_type |-> "entity_type", scope_id |-> "light", verbosity |-> "minimal"],
     [scope_type |-> "entity_type", scope_id |-> "knob", verbosity |-> "verbose"],
     [scope_type |-> "global", scope_id |-> NoScope, verbosity |-> "minimal"]}
CollectionConfigs == SUBSET CollectionRows

\* SELECT verbosity FROM collection_config WHERE scope_type = .. AND
\* scope_id = ..: the rows fetchone() can return
SelectConfig(config, scope_type, scope_id) ==
    {row \in config : row.scope_type = scope_type /\ row.scope_id = scope_id}

get_verbosity_for_entity_global_first(config, entity_type, device_id) ==
    LET dev == SelectConfig(config, "device", device_id)
        typ == SelectConfig(config, "entity_type", entity_type)
        glo == SelectConfig(config, "global", NoScope)
    IN  IF device_id # NoDevice /\ dev # {} THEN (CHOOSE row \in dev : TRUE).verbosity
        ELSE IF glo # {} THEN (CHOOSE row \in glo : TRUE).verbosity
        ELSE IF typ # {} THEN (CHOOSE row \in typ : TRUE).verbosity
        ELSE "standard"
get_verbosity_for_entity(config, entity_type, device_id) ==
    LET dev == SelectConfig(config, "device", device_id)
        typ == SelectConfig(config, "entity_type", entity_type)
        glo == SelectConfig(config, "global", NoScope)
    IN  IF device_id # NoDevice /\ dev # {} THEN (CHOOSE row \in dev : TRUE).verbosity
        ELSE IF typ # {} THEN (CHOOSE row \in typ : TRUE).verbosity
        ELSE IF glo # {} THEN (CHOOSE row \in glo : TRUE).verbosity
        ELSE "standard"

(***************************************************************************)
(* entity_router.py record_state_change: the history row of a state write. *)
(* verbosity is what get_verbosity_for_entity returns; histFail is an      *)
(* exception raised by the lookup, the INSERT or its commit.               *)
(* rows: the rows inserted; committed: whether its db.commit() ran.        *)
(***************************************************************************)
record_state_change(slug, etype, previous_state, new_state, verbosity, histFail) ==
    LET changed_keys == compute_changed_keys(previous_state, new_state)
        prev_to_store == IF verbosity = "verbose" THEN previous_state ELSE EmptyDict
    IN  IF changed_keys = {} THEN [rows |-> <<>>, committed |-> FALSE]
        ELSE IF histFail THEN [rows |-> <<>>, committed |-> FALSE]
        ELSE IF verbosity = "minimal" THEN [rows |-> <<>>, committed |-> FALSE]
        ELSE [rows |-> <<[entity_slug |-> slug, entity_type |-> etype,
                          state |-> new_state, previous_state |-> prev_to_store,
                          changed_keys |-> changed_keys]>>,
              committed |-> TRUE]

(***************************************************************************)
(* state_manager.py: the state_changed fan-out.  A subject or topic is the *)
(* sequence of its segments.  failAt = 0: the client is absent or closed;  *)
(* failAt = i in 1..3: the i-th publish raises; failAt = 4: no failure.    *)
(***************************************************************************)
StateSubjects(entity_type, slug) ==
    << <<"maestra", "entity", "state", entity_type, slug>>,
       <<"maestra", "entity", "state">>,
       <<"maestra", "entity", "state", entity_type>> >>

_publish_nats(slug, entity_type, event, failAt) ==
    IF failAt = 0 THEN <<>>
    ELSE [i \in 1..(IF failAt = 4 THEN 3 ELSE failAt - 1) |->
            [sep |-> ".", path |-> StateSubjects(entity_type, slug)[i],
             payload |-> event]]

_publish_mqtt(slug, entity_type, event, failAt) ==
    IF failAt = 0 THEN <<>>
    ELSE [i \in 1..(IF failAt = 4 THEN 3 ELSE failAt - 1) |->
            [sep |-> "/", path |-> StateSubjects(entity_type, slug)[i],
             payload |-> event]]

\* what the two publishers put on the two buses: asyncio.gather(...,
\* return_exceptions=True) runs both whatever the other does
broadcast_state_change(slug, entity_type, previous_state, new_state, natsFailAt, mqttFailAt) ==
    LET changed_keys == compute_changed_keys(previous_state, new_state)
        event == [type |-> "state_changed", entity_slug |-> slug,
                  entity_type |-> entity_type,
                  previous_state |-> previous_state,
                  current_state |-> new_state,
                  changed_keys |-> changed_keys]
    IN  IF changed_keys = {} THEN [nats |-> <<>>, mqtt |-> <<>>]
        ELSE [nats |-> _publish_nats(slug, entity_type, event, natsFailAt),
              mqtt |-> _publish_mqtt(slug, entity_type, event, mqttFailAt)]

\* the parameters broadcast_state_change declares (besides self)
BroadcastParams ==
    {"entity_id", "entity_slug", "entity_type", "entity_path",
     "previous_state", "new_state", "source"}

\* the keyword arguments the three state-write handlers pass to it
BroadcastCallKeywords ==
    {"entity_id", "entity_slug", "entity_type", "entity_path",
     "previous_state", "new_state", "source", "entity_metadata"}

\* Python binds a call only if every keyword names a parameter; otherwise
\* the call raises TypeError before the coroutine is created
BroadcastCallBinds == BroadcastCallKeywords \subseteq BroadcastParams

(***************************************************************************)
(* entity_router.py: the state-write handlers.  A handler is two steps:    *)
(* the SELECT of the entity row, and everything from the merge to the      *)
(* response (the commit, the history row, the fan-out).  Between the two   *)
(* another request's steps may run.                                        *)
(***************************************************************************)
\* SELECT ... WHERE EntityDB.id == entity_id; 404 when there is no row
SelectEntity(r, kind, entity_id, body) ==
    /\ req[r].pc = "idle"
    /\ req' = [req EXCEPT ![r] =
                 IF entity_id \in Ents
                 THEN [IdleReq EXCEPT !.pc = "read", !.kind = kind,
                                      !.target = entity_id, !.body = body,
                                      !.prev = entState[entity_id]]
                 ELSE [IdleReq EXCEPT !.pc = "done", !.kind = kind,
                                      !.target = entity_id, !.body = body,
                                      !.resp = 404]]
    /\ UNCHANGED <<entState, history, nats, mqtt, entState0>>
    /\ UNCHANGED <<hierVars, streamVars, logVars, routeVars, relayVars, httpVars, previewVars>>

\* the bus failure a request meets, read only by a call that binds
BusFailures == IF BroadcastCallBinds THEN 0..4 ELSE {4}

\* db_entity.state = new_state; commit; record_state_change;
\* broadcast_state_change; return StateResponse
CommitAndNotify(r, new_state, config) ==
    LET q == req[r]
        e == q.target
        changed == compute_changed_keys(q.prev, new_state)
        verbosity == IF changed = {} THEN ""
                     ELSE get_verbosity_for_entity(config, TypeOf(e), DeviceOf(e))
    IN  \E histFail \in (IF changed = {} \/ verbosity = "minimal"
                         THEN {FALSE} ELSE BOOLEAN) :
            LET rec == record_state_change(e, TypeOf(e), q.prev, new_state,
                                           verbosity, histFail)
                done == [q EXCEPT !.pc = "done", !.new = new_state,
                                  !.changed = changed,
                                  !.verbosity = verbosity,
                                  !.histFail = histFail]
            IN  /\ entState' = [entState EXCEPT ![e] = new_state]
                /\ UNCHANGED <<entState0, hierVars, streamVars, logVars, routeVars, relayVars, httpVars, previewVars>>
                /\ history' = history \o rec.rows
                /\ \E natsFailAt \in BusFailures, mqttFailAt \in BusFailures :
                     LET out == broadcast_state_change(
                                    e, TypeOf(e), q.prev, new_state,
                                    natsFailAt, mqttFailAt)
                     IN  IF BroadcastCallBinds
                         THEN /\ nats' = nats \o out.nats
                              /\ mqtt' = mqtt \o out.mqtt
                              /\ req' = [req EXCEPT ![r] =
                                           [done EXCEPT
                                              !.natsFailAt = natsFailAt,
                                              !.mqttFailAt = mqttFailAt,
                                              !.resp = 200]]
                         ELSE \* TypeError: the response is a 500
                              /\ UNCHANGED <<nats, mqtt>>
                              /\ req' = [req EXCEPT ![r] =
                                           [done EXCEPT !.resp = 500]]

\* PATCH /entities/{id}/state
update_state_select(r, entity_id, body) ==
    SelectEntity(r, "patch", entity_id, body)

update_state(r, config) ==
    /\ req[r].pc = "read"
    /\ req[r].kind = "patch"
    /\ CommitAndNotify(r, deep_merge(req[r].prev, req[r].body), config)

\* PUT /entities/{id}/state
set_state_select(r, entity_id, body) ==
    SelectEntity(r, "put", entity_id, body)

set_state(r, config) ==
    /\ req[r].pc = "read"
    /\ req[r].kind = "put"
    /\ CommitAndNotify(r, req[r].body, config)

\* the bodies of a bulk update, and the batches: each slug at most once (the
\* request body is a JSON object keyed by slug), in the order of the body
MaxBatch == 2
BulkDicts == {EmptyDict, [k \in {"a"} |-> Num(1)], [k \in {"b"} |-> None]}
BulkItems ==
    {items \in UNION {[1..n -> (Ents \cup {Missing}) \X BulkDicts] : n \in 1..MaxBatch} :
        \A i, j \in DOMAIN items : items[i][1] = items[j][1] => i = j}

\* for slug, state_update in updates.items(): ... from item i on.
\* st.ent: committed states; st.pending: states assigned in the session and
\* not yet committed; st.raised: an exception left the handler; st.commits:
\* the items during which db.commit() ran.
RECURSIVE BulkLoop(_, _, _, _, _, _, _)
BulkLoop(items, i, st, verbosity, histFail, natsFailAt, mqttFailAt) ==
    IF i > Len(items) \/ st.raised THEN st
    ELSE LET slug == items[i][1]
             state_update == items[i][2]
         IN  IF slug \notin Ents
             THEN BulkLoop(items, i + 1,
                           [st EXCEPT !.results = Put(@, slug, "not_found")],
                           verbosity, histFail, natsFailAt, mqttFailAt)
             ELSE LET previous_state == st.ent[slug]
                      new_state == deep_merge(previous_state, state_update)
                      pending == Put(st.pending, slug, new_state)
                      changed == compute_changed_keys(previous_state, new_state)
                      rec == record_state_change(slug, TypeOf(slug), previous_state,
                                                 new_state, verbosity, histFail)
                      out == broadcast_state_change(slug, TypeOf(slug), previous_state,
                                                    new_state, natsFailAt, mqttFailAt)
                      st1 == [st EXCEPT
                                !.results = Put(@, slug, "updated"),
                                \* record_state_change's db.commit() writes
                                \* everything the session holds
                                !.ent = [e \in Ents |->
                                           IF rec.committed /\ e \in DOMAIN pending
                                           THEN pending[e] ELSE st.ent[e]],
                                !.pending = IF rec.committed THEN EmptyDict ELSE pending,
                                !.commits = IF rec.committed THEN Append(@, i) ELSE @,
                                !.hist = @ \o rec.rows,
                                !.last = slug, !.prev = previous_state,
                                !.new = new_state, !.changed = changed,
                                !.lookedUp = @ \/ changed # {},
                                !.insertTried = @ \/ (changed # {} /\ verbosity # "minimal")]
                  IN  IF BroadcastCallBinds
                      THEN BulkLoop(items, i + 1,
                                    [st1 EXCEPT !.nats = @ \o out.nats,
                                                !.mqtt = @ \o out.mqtt],
                                    verbosity, histFail, natsFailAt, mqttFailAt)
                      ELSE [st1 EXCEPT !.raised = TRUE]

\* POST /entities/state/bulk-update
bulk_update_state(r, items) ==
    /\ req[r].pc = "idle"
    /\ \E verbosity \in Verbosities, histFail \in BOOLEAN :
       \E natsFailAt \in BusFailures, mqttFailAt \in BusFailures :
          LET st0 == [ent |-> entState, pending |-> EmptyDict, hist |-> history,
                      nats |-> nats, mqtt |-> mqtt, results |-> EmptyDict,
                      raised |-> FALSE, last |-> "", prev |-> EmptyDict,
                      new |-> EmptyDict, changed |-> {}, commits |-> <<>>,
                      lookedUp |-> FALSE, insertTried |-> FALSE]
              st == BulkLoop(items, 1, st0, verbosity, histFail,
                             natsFailAt, mqttFailAt)
          IN  \* await db.commit() after the loop, unless an exception left it
              /\ entState' = IF st.raised THEN st.ent
                             ELSE [e \in Ents |->
                                     IF e \in DOMAIN st.pending
                                     THEN st.pending[e] ELSE st.ent[e]]
              /\ UNCHANGED <<entState0, hierVars, streamVars, logVars, routeVars, relayVars, httpVars, previewVars>>
              /\ history' = st.hist
              /\ nats' = st.nats
              /\ mqtt' = st.mqtt
              /\ req' = [req EXCEPT ![r] =
                           [IdleReq EXCEPT
                              !.pc = "done", !.kind = "bulk", !.items = items,
                              !.target = st.last, !.prev = st.prev,
                              !.new = st.new, !.changed = st.changed,
                              !.verbosity = IF st.lookedUp THEN verbosity ELSE "",
                              !.histFail = st.insertTried /\ histFail,
                              !.natsFailAt = natsFailAt,
                              !.mqttFailAt = mqttFailAt,
                              !.results = st.results,
                              \* the commit after the loop counts as item
                              \* Len(items) + 1
                              !.commits = IF st.raised THEN st.commits
                                          ELSE Append(st.commits, Len(items) + 1),
                              !.resp = IF st.raised THEN 500 ELSE 200]]

(***************************************************************************)
(* entity_router.py: the entity hierarchy.  An entity row is its parent_id *)
(* (0 is NULL) and its type; its slug is its id.  parent_id is a foreign   *)
(* key on entities.id with ON DELETE SET NULL (database.py).               *)
(***************************************************************************)
MaxEntities == 3
EntityIds == 1..MaxEntities
NoEntity == MaxEntities + 1
EntityTypes == {"light", "knob"}
NoType == "notype"
NULL == 0

\* a parent_id of an update: not in the body, or a value (NULL or an id)
Unset == [set |-> FALSE, id |-> NULL]
SetTo(p) == [set |-> TRUE, id |-> p]

\* the parent chain of e in table tbl: its parent, its parent's parent, ...
AncestorsOf(tbl, e) ==
    LET RECURSIVE Up(_, _)
        Up(cur, seen) ==
            LET p == tbl[cur].parent
            IN  IF p = NULL \/ p \notin DOMAIN tbl \/ p \in seen THEN seen
                ELSE Up(p, seen \cup {p})
    IN  Up(e, {})

\* the rows the recursive CTE of the cascade delete collects: the children
\* of e, their children, ...
DescendantsOf(tbl, e) ==
    LET RECURSIVE Down(_)
        Down(seen) ==
            LET more == {d \in DOMAIN tbl : tbl[d].parent \in seen \cup {e}}
            IN  IF more \subseteq seen THEN seen ELSE Down(seen \cup more)
    IN  Down({})

\* WITH RECURSIVE ... UNION ALL keeps producing rows when a descendant is
\* its own descendant: the statement never finishes
CteDiverges(tbl, e) ==
    \E d \in DescendantsOf(tbl, e) : d \in DescendantsOf(tbl, d)

\* the rows the recursive CTE of the ancestors query produces, in the order
\* of their depth: the parent of e, its parent, ...; UNION ALL drops no row
\* it has produced before, so the rows are cut after as many as the table
\* has entities plus one
ancestors_cte(tbl, e) ==
    LET RECURSIVE Rows(_, _)
        Rows(cur, n) ==
            IF cur = NULL \/ cur \notin DOMAIN tbl THEN <<>>
            ELSE IF n = 0 THEN <<cur>>
            ELSE <<cur>> \o Rows(tbl[cur].parent, n - 1)
    IN  Rows(tbl[e].parent, Cardinality(DOMAIN tbl))

\* ... which never finishes when the parent chain of e does not end: more
\* rows than there are other entities
AncestorsCteDiverges(tbl, e) ==
    Len(ancestors_cte(tbl, e)) >= Cardinality(DOMAIN tbl)

\* state_manager.py: entity_created / entity_updated / entity_deleted, in the
\* order they are published.  failAt = 0: the client is absent or closed;
\* failAt = i in 1..2: the i-th publish raises; failAt = 3: no failure.
LifecycleFailures == 0..3

LifecyclePaths(event_type, slug, entity_type) ==
    << <<"maestra", "entity", event_type, entity_type, slug>>,
       <<"maestra", "entity", event_type>> >>

\* _publish_nats_lifecycle with the three subjects of _publish_nats
_publish_nats_lifecycle_per_type(event_type, slug, entity_type, event, failAt) ==
    IF failAt = 0 THEN <<>>
    ELSE [i \in 1..(IF failAt = 3 THEN 3 ELSE failAt - 1) |->
            [sep |-> ".",
             path |-> (LifecyclePaths(event_type, slug, entity_type)
                         \o << <<"maestra", "entity", event_type, entity_type>> >>)[i],
             payload |-> event]]

_publish_nats_lifecycle(event_type, slug, entity_type, event, failAt) ==
    IF failAt = 0 THEN <<>>
    ELSE [i \in 1..(IF failAt = 3 THEN 2 ELSE failAt - 1) |->
            [sep |-> ".", path |-> LifecyclePaths(event_type, slug, entity_type)[i],
             payload |-> event]]

_publish_mqtt_lifecycle(event_type, slug, entity_type, event, failAt) ==
    IF failAt = 0 THEN <<>>
    ELSE [i \in 1..(IF failAt = 3 THEN 2 ELSE failAt - 1) |->
            [sep |-> "/", path |-> LifecyclePaths(event_type, slug, entity_type)[i],
             payload |-> event]]

\* asyncio.gather(..., return_exceptions=True) runs both publishers
broadcast_entity_lifecycle(event_type, entity_id, entity_type, natsFailAt, mqttFailAt) ==
    LET event == [type |-> "entity_" \o event_type, entity_id |-> entity_id,
                  entity_slug |-> entity_id, entity_type |-> entity_type]
    IN  /\ nats' = _publish_nats_lifecycle(event_type, entity_id, entity_type,
                                           event, natsFailAt)
        /\ mqtt' = _publish_mqtt_lifecycle(event_type, entity_id, entity_type,
                                           event, mqttFailAt)

\* a request that raised HTTPException before writing anything
HierRejected(op, id, code) ==
    /\ hresp' = [op |-> op, id |-> id, code |-> code]
    /\ nats' = <<>>
    /\ mqtt' = <<>>
    /\ UNCHANGED <<entities, usedIds>>

\* POST /entities
create_entity(entity_type, parent_id, natsFailAt, mqttFailAt) ==
    /\ usedIds # EntityIds
    /\ LET id == CHOOSE i \in EntityIds \ usedIds :
                    \A j \in EntityIds \ usedIds : i <= j
       IN  IF entity_type \notin EntityTypes
           THEN HierRejected("create", NULL, 404)
           ELSE IF parent_id # NULL /\ parent_id \notin DOMAIN entities
           THEN HierRejected("create", NULL, 404)
           ELSE /\ entities' = [e \in DOMAIN entities \cup {id} |->
                                  IF e = id
                                  THEN [parent |-> parent_id, type |-> entity_type]
                                  ELSE entities[e]]
                /\ usedIds' = usedIds \cup {id}
                /\ hresp' = [op |-> "create", id |-> id, code |-> 201]
                /\ broadcast_entity_lifecycle("created", id, entity_type,
                                              natsFailAt, mqttFailAt)
    /\ UNCHANGED <<stateVars, streamVars, logVars, routeVars, relayVars, httpVars, previewVars>>

\* PUT /entities/{entity_id}; parent is the parent_id of the body
update_entity(entity_id, parent, natsFailAt, mqttFailAt) ==
    /\ IF entity_id \notin DOMAIN entities
       THEN HierRejected("update", entity_id, 404)
       ELSE IF /\ parent.set /\ parent.id # NULL
               /\ parent.id # entities[entity_id].parent
               /\ parent.id = entity_id
       THEN HierRejected("update", entity_id, 400)
       ELSE IF /\ parent.set /\ parent.id # NULL
               /\ parent.id # entities[entity_id].parent
               /\ parent.id \notin DOMAIN entities
       THEN HierRejected("update", entity_id, 404)
       ELSE /\ entities' = IF parent.set
                           THEN [entities EXCEPT ![entity_id].parent = parent.id]
                           ELSE entities
            /\ UNCHANGED usedIds
            /\ hresp' = [op |-> "update", id |-> entity_id, code |-> 200]
            /\ broadcast_entity_lifecycle("updated", entity_id,
                                          entities[entity_id].type, natsFailAt, mqttFailAt)
    /\ UNCHANGED <<stateVars, streamVars, logVars, routeVars, relayVars, httpVars, previewVars>>

\* GET /entities/{entity_id}/ancestors; code 0: the query never returns
get_ancestors(entity_id) ==
    /\ hresp' = [op |-> "ancestors", id |-> entity_id,
                 code |-> IF entity_id \notin DOMAIN entities THEN 404
                          ELSE IF AncestorsCteDiverges(entities, entity_id) THEN 0
                          ELSE 200]
    /\ nats' = <<>>
    /\ mqtt' = <<>>
    /\ UNCHANGED <<entities, usedIds>>
    /\ UNCHANGED <<stateVars, streamVars, logVars, routeVars, relayVars, httpVars, previewVars>>

\* DELETE /entities/{entity_id}?cascade=
delete_entity(entity_id, cascade, natsFailAt, mqttFailAt) ==
    /\ IF entity_id \notin DOMAIN entities
       THEN HierRejected("delete", entity_id, 404)
       ELSE IF cascade /\ CteDiverges(entities, entity_id)
       THEN \* the DELETE never returns; nothing is committed
            HierRejected("delete", entity_id, 0)
       ELSE LET gone == IF cascade
                        THEN DescendantsOf(entities, entity_id) \cup {entity_id}
                        ELSE {entity_id}
            IN  /\ entities' = [e \in DOMAIN entities \ gone |->
                                  IF entities[e].parent \in gone
                                  THEN [entities[e] EXCEPT !.parent = NULL]
                                  ELSE entities[e]]
                /\ UNCHANGED usedIds
                /\ hresp' = [op |-> "delete", id |-> entity_id, code |-> 200]
                /\ broadcast_entity_lifecycle("deleted", entity_id,
                                              entities[entity_id].type, natsFailAt, mqttFailAt)
    /\ UNCHANGED <<stateVars, streamVars, logVars, routeVars, relayVars, httpVars, previewVars>>

(***************************************************************************)
(* stream_manager.py: the stream registry and the negotiator over the      *)
(* ephemeral store.  A hash is a function from field names to values; a    *)
(* key that holds no field does not exist.  Every coroutine runs on one    *)
(* event loop: between two awaits it runs alone, at an await any other     *)
(* coroutine may run.  A handler is split where a step of another handler  *)
(* in between changes what it does.                                        *)
(***************************************************************************)
STREAM_TTL == 30
SESSION_TTL == 30
REQUEST_TIMEOUT == 5
TickStep == 15
MaxStreams == 1
MaxSessions == 2
MaxCalls == 2

\* the values uuid4 returns, in the order it returns them
StreamIdSeq == <<"s1", "s2", "s3", "s4">>
SessionIdSeq == <<"x1", "x2", "x3", "x4">>
StreamIds == {StreamIdSeq[i] : i \in 1..MaxStreams}
SessionIds == {SessionIdSeq[i] : i \in 1..MaxSessions}
StreamTypes == {"video", "sensor"}
Calls == 1..MaxCalls

EmptyHash == <<>>
HGetAll(table, key) == IF key \in DOMAIN table THEN table[key] ELSE EmptyHash
HashGet(data, field, default) == IF field \in DOMAIN data THEN data[field] ELSE default
Del(table, keys) == [k \in DOMAIN table \ keys |-> table[k]]

\* the port numbers in use, and their decimal strings
PortNumbers == <<0, 9000, 9001>>
PortStrings == <<"0", "9000", "9001">>
\* str(port) and int(port)
str(n) == PortStrings[CHOOSE i \in DOMAIN PortNumbers : PortNumbers[i] = n]
int(t) == PortNumbers[CHOOSE i \in DOMAIN PortStrings : PortStrings[i] = t]

\* what a publisher advertises
Advert == [protocol |-> "udp", address |-> "10.0.0.1", port |-> 9000]

\* the replies a publisher sends to a stream request: an acceptance that
\* names nothing, one that names a protocol and a port but no address, a
\* refusal, and a reply without the accepted field
Replies ==
    {[accepted |-> TRUE],
     [accepted |-> TRUE, protocol |-> "tcp", port |-> 9001],
     [accepted |-> FALSE],
     EmptyHash}
\* a negotiator that takes any reply for an acceptance
offer_accepted_always(offer_data) == TRUE
\* offer_data.get("accepted", False)
offer_accepted(offer_data) == HashGet(offer_data, "accepted", FALSE)

\* what get_stream returns for a key that does not exist
NoStream ==
    [id |-> "", stream_type |-> "", protocol |-> "", address |-> "", port |-> 0,
     active_sessions |-> 0, found |-> FALSE]

_parse_stream_data(data) ==
    [id |-> HashGet(data, "id", ""),
     stream_type |-> HashGet(data, "stream_type", ""),
     protocol |-> HashGet(data, "protocol", ""),
     address |-> HashGet(data, "address", ""),
     port |-> int(HashGet(data, "port", "0")),
     active_sessions |-> 0,
     found |-> TRUE]

_parse_session_data(data) ==
    [session_id |-> HashGet(data, "session_id", ""),
     stream_id |-> HashGet(data, "stream_id", ""),
     publisher_address |-> HashGet(data, "publisher_address", ""),
     protocol |-> HashGet(data, "protocol", ""),
     status |-> HashGet(data, "status", "active")]

get_stream(stream_id) ==
    LET data == HGetAll(streams, stream_id)
    IN  IF DOMAIN data = {} THEN NoStream
        ELSE [_parse_stream_data(data) EXCEPT
                !.active_sessions = Cardinality(sessionsByStream[stream_id])]

\* GET /streams/{stream_id}
get_stream_status(stream_id) == IF get_stream(stream_id).found THEN 200 ELSE 404

\* what list_streams returns; stream_type "" is no filter
list_streams_result(stream_type) ==
    LET index == IF stream_type # "" THEN streamsByType[stream_type] ELSE streamsAll
    IN  {[_parse_stream_data(streams[sid]) EXCEPT
            !.active_sessions = Cardinality(sessionsByStream[sid])] :
         sid \in index \cap DOMAIN streams}

\* what list_sessions returns; stream_id "" is no filter
list_sessions_result(stream_id) ==
    LET index == IF stream_id # "" THEN sessionsByStream[stream_id] ELSE sessionsAll
    IN  {_parse_session_data(sessions[sid]) : sid \in index \cap DOMAIN sessions}

StreamMsg(path, payload) == [sep |-> ".", path |-> path, payload |-> payload]

IdleCall ==
    [op |-> "none", pc |-> "idle", stream_id |-> "", stream_data |-> NoStream,
     sids |-> {}, waited |-> 0]

\* a step that does not end a call of withdraw_stream, request_stream,
\* stop_session, refresh_stream_ttl or refresh_session_ttl
NoResponse ==
    [op |-> "none", id |-> "", resp |-> "", outcome |-> "", reply |-> EmptyHash,
     session_id |-> "", offer |-> EmptyHash]

Response(op, id, resp) == [NoResponse EXCEPT !.op = op, !.id = id, !.resp = resp]

\* routes that answer a timeout as they answer any other failed bus request
status_code_bad_gateway(resp) ==
    CASE resp \in {"False", "ValueError"} -> 404
      [] resp \in {"TimeoutError", "RuntimeError"} -> 502
      [] resp \in {"True", "offer"} -> 200
      [] OTHER -> 500

\* the status the stream routes answer with, by what the manager returned
\* or raised
status_code(resp) ==
    CASE resp \in {"False", "ValueError"} -> 404
      [] resp = "TimeoutError" -> 504
      [] resp = "RuntimeError" -> 502
      [] resp \in {"True", "offer"} -> 200
      [] OTHER -> 500

\* a history task made with asyncio.create_task
LogTask(kind, session_id) == [kind |-> kind, session_id |-> session_id]

\* a coroutine starts in the first free slot
CallFree(c) ==
    /\ calls[c].pc = "idle"
    /\ \A d \in Calls : d < c => calls[d].pc # "idle"

\* POST /streams/advertise
advertise_stream(stream_type, natsUp) ==
    /\ streamCount < MaxStreams
    /\ LET stream_id == StreamIdSeq[streamCount + 1]
           stream_data == [id |-> stream_id, stream_type |-> stream_type,
                           protocol |-> Advert.protocol,
                           address |-> Advert.address,
                           port |-> str(Advert.port),
                           last_heartbeat |-> "now"]
       IN  /\ streams' = Put(streams, stream_id, stream_data)
           /\ streamTtl' = Put(streamTtl, stream_id, STREAM_TTL)
           /\ streamsAll' = streamsAll \cup {stream_id}
           /\ streamsByType' = [streamsByType EXCEPT ![stream_type] = @ \cup {stream_id}]
           /\ nats' = IF natsUp
                      THEN << StreamMsg(<<"maestra", "stream", "advertise">>,
                                        [type |-> "stream_advertised",
                                         stream_id |-> stream_id]),
                              StreamMsg(<<"maestra", "stream", "advertise", stream_type>>,
                                        [type |-> "stream_advertised",
                                         stream_id |-> stream_id]),
                              StreamMsg(<<"maestra", "to_mqtt", "maestra", "stream",
                                          "advertise", stream_type>>,
                                        [id |-> stream_id, stream_type |-> stream_type]) >>
                      ELSE <<>>
           /\ sresp' = NoResponse
           /\ streamCount' = streamCount + 1
           /\ fresh' = Put(fresh, stream_id, 0)
    /\ UNCHANGED <<sessions, sessionTtl, sessionsAll, sessionsByStream,
                   calls, sessionCount, lapsed>>
    /\ UNCHANGED <<stateVars, hierVars, logVars, routeVars, relayVars, httpVars, previewVars, mqtt>>

\* DELETE /streams/{stream_id}, up to the read of the session index:
\* the record and its index entries are removed
withdraw_stream_record(c, stream_id) ==
    /\ CallFree(c)
    /\ LET stream_data == HGetAll(streams, stream_id)
           stream_type == HashGet(stream_data, "stream_type", "")
       IN  IF DOMAIN stream_data = {}
           THEN /\ sresp' = Response("withdraw_stream", stream_id, "False")
                /\ UNCHANGED <<calls, streams, streamTtl, streamsAll, streamsByType,
                               fresh, lapsed>>
           ELSE /\ streams' = Del(streams, {stream_id})
                /\ streamTtl' = Del(streamTtl, {stream_id})
                /\ streamsAll' = streamsAll \ {stream_id}
                /\ streamsByType' = IF stream_type # ""
                                    THEN [streamsByType EXCEPT
                                            ![stream_type] = @ \ {stream_id}]
                                    ELSE streamsByType
                /\ calls' = [calls EXCEPT ![c] =
                                [IdleCall EXCEPT !.op = "withdraw_stream",
                                                 !.pc = "sessions",
                                                 !.stream_id = stream_id,
                                                 !.sids = sessionsByStream[stream_id]]]
                /\ sresp' = NoResponse
                /\ fresh' = Del(fresh, {stream_id})
                /\ lapsed' = lapsed \ {stream_id}
    /\ nats' = <<>>
    /\ UNCHANGED <<sessions, sessionTtl, sessionsAll, sessionsByStream,
                   streamCount, sessionCount>>
    /\ UNCHANGED <<stateVars, hierVars, logVars, routeVars, relayVars, httpVars, previewVars, mqtt>>

\* the rest of withdraw_stream: the sessions read from the index are deleted,
\* the index is deleted, the event is published
withdraw_stream_sessions(c, natsUp) ==
    /\ calls[c].op = "withdraw_stream" /\ calls[c].pc = "sessions"
    /\ LET stream_id == calls[c].stream_id
           session_ids == calls[c].sids
       IN  /\ sessions' = Del(sessions, session_ids)
           /\ sessionTtl' = Del(sessionTtl, session_ids)
           /\ sessionsAll' = sessionsAll \ session_ids
           /\ sessionsByStream' = [sessionsByStream EXCEPT ![stream_id] = {}]
           /\ nats' = IF natsUp
                      THEN << StreamMsg(<<"maestra", "stream", "withdraw", stream_id>>,
                                        [type |-> "stream_withdrawn",
                                         stream_id |-> stream_id]) >>
                      ELSE <<>>
           /\ sresp' = Response("withdraw_stream", stream_id, "True")
    /\ calls' = [calls EXCEPT ![c] = IdleCall]
    /\ UNCHANGED <<streams, streamTtl, streamsAll, streamsByType,
                   streamCount, sessionCount, fresh, lapsed>>
    /\ UNCHANGED <<stateVars, hierVars, logVars, routeVars, relayVars, httpVars, previewVars, mqtt>>

\* GET /streams?stream_type=
list_streams(stream_type) ==
    /\ LET index == IF stream_type # "" THEN streamsByType[stream_type] ELSE streamsAll
           stale == index \ DOMAIN streams
       IN  /\ streamsAll' = streamsAll \ stale
           /\ streamsByType' = IF stream_type # ""
                               THEN [streamsByType EXCEPT ![stream_type] = @ \ stale]
                               ELSE streamsByType
    /\ nats' = <<>>
    /\ sresp' = NoResponse
    /\ UNCHANGED <<streams, streamTtl, sessions, sessionTtl, sessionsAll,
                   sessionsByStream, calls, streamCount, sessionCount, fresh, lapsed>>
    /\ UNCHANGED <<stateVars, hierVars, logVars, routeVars, relayVars, httpVars, previewVars, mqtt>>

\* POST /streams/{stream_id}/request, up to the request on the subject tree
request_stream_send(c, stream_id, natsUp) ==
    /\ CallFree(c)
    /\ LET stream_data == get_stream(stream_id)
       IN  IF ~stream_data.found
           THEN /\ sresp' = Response("request_stream", stream_id, "ValueError")
                /\ nats' = <<>>
                /\ UNCHANGED calls
           ELSE IF ~natsUp
           THEN /\ sresp' = Response("request_stream", stream_id, "RuntimeError")
                /\ nats' = <<>>
                /\ UNCHANGED calls
           ELSE /\ calls' = [calls EXCEPT ![c] =
                                [IdleCall EXCEPT !.op = "request_stream",
                                                 !.pc = "waiting",
                                                 !.stream_id = stream_id,
                                                 !.stream_data = stream_data]]
                /\ sresp' = NoResponse
                /\ nats' = << StreamMsg(<<"maestra", "stream", "request", stream_id>>,
                                        [type |-> "stream_request",
                                         stream_id |-> stream_id]) >>
    /\ UNCHANGED <<storeVars, streamCount, sessionCount, fresh, lapsed>>
    /\ UNCHANGED <<stateVars, hierVars, logVars, routeVars, relayVars, httpVars, mqtt>>

\* the rest of request_stream.  outcome: "reply" (offer_data arrived before the
\* timeout), "timeout", "error" (the request raised anything else).  natsUp:
\* the connection is open when session_started is published.
request_stream_reply(c, outcome, offer_data, natsUp, db_session) ==
    /\ calls[c].op = "request_stream" /\ calls[c].pc = "waiting"
    /\ outcome = "timeout" <=> calls[c].waited >= REQUEST_TIMEOUT
    /\ LET stream_id == calls[c].stream_id
           stream_data == calls[c].stream_data
           raised(resp) ==
               /\ sresp' = [Response("request_stream", stream_id, resp) EXCEPT
                               !.outcome = outcome, !.reply = offer_data]
               /\ nats' = <<>>
               /\ UNCHANGED <<sessions, sessionTtl, sessionsAll, sessionsByStream,
                              sessionCount, tasks>>
       IN  IF outcome = "timeout" THEN raised("TimeoutError")
           ELSE IF outcome = "error" THEN raised("RuntimeError")
           ELSE IF ~offer_accepted(offer_data) THEN raised("ValueError")
           ELSE /\ sessionCount < MaxSessions
                /\ LET session_id == SessionIdSeq[sessionCount + 1]
                       protocol == HashGet(offer_data, "protocol",
                                           stream_data.protocol)
                       address == HashGet(offer_data, "address", stream_data.address)
                       port == HashGet(offer_data, "port", stream_data.port)
                       session_data == [session_id |-> session_id,
                                        stream_id |-> stream_id,
                                        publisher_address |-> address,
                                        publisher_port |-> str(port),
                                        protocol |-> protocol,
                                        status |-> "active"]
                       offer == [session_id |-> session_id,
                                 stream_id |-> stream_id,
                                 protocol |-> protocol,
                                 publisher_address |-> address,
                                 publisher_port |-> int(str(port))]
                   IN  /\ sessions' = Put(sessions, session_id, session_data)
                       /\ sessionTtl' = Put(sessionTtl, session_id, SESSION_TTL)
                       /\ sessionsByStream' = [sessionsByStream EXCEPT
                                                 ![stream_id] = @ \cup {session_id}]
                       /\ sessionsAll' = sessionsAll \cup {session_id}
                       /\ sessionCount' = sessionCount + 1
                       /\ tasks' = IF db_session
                                   THEN Put(tasks, LogTask("start", session_id),
                                            "pending")
                                   ELSE tasks
                       /\ nats' = IF natsUp
                                  THEN << StreamMsg(<<"maestra", "stream", "session",
                                                      "started">>,
                                                    [type |-> "session_started",
                                                     session_id |-> session_id,
                                                     stream_id |-> stream_id]) >>
                                  ELSE <<>>
                       /\ sresp' = [Response("request_stream", stream_id,
                                             IF natsUp THEN "offer" ELSE "Exception")
                                    EXCEPT !.outcome = outcome, !.reply = offer_data,
                                           !.session_id = session_id,
                                           !.offer = IF natsUp THEN offer
                                                     ELSE EmptyHash]
    /\ calls' = [calls EXCEPT ![c] = IdleCall]
    /\ UNCHANGED <<streams, streamTtl, streamsAll, streamsByType,
                   streamCount, fresh, lapsed>>
    /\ UNCHANGED <<stateVars, hierVars, stream_sessions, routeVars, relayVars, httpVars, mqtt>>

\* GET /streams/sessions?stream_id=
list_sessions(stream_id) ==
    /\ LET index == IF stream_id # "" THEN sessionsByStream[stream_id] ELSE sessionsAll
           stale == index \ DOMAIN sessions
       IN  /\ sessionsAll' = sessionsAll \ stale
           /\ sessionsByStream' = IF stream_id # ""
                                  THEN [sessionsByStream EXCEPT ![stream_id] = @ \ stale]
                                  ELSE sessionsByStream
    /\ nats' = <<>>
    /\ sresp' = NoResponse
    /\ UNCHANGED <<streams, streamTtl, streamsAll, streamsByType, sessions, sessionTtl,
                   calls, streamCount, sessionCount, fresh, lapsed>>
    /\ UNCHANGED <<stateVars, hierVars, logVars, routeVars, relayVars, httpVars, previewVars, mqtt>>

\* a stop that deletes the record and leaves the index sets as they are
stop_session_record_only(session_id, natsUp, db_session) ==
    /\ LET session_data == HGetAll(sessions, session_id)
           stream_id == HashGet(session_data, "stream_id", "")
       IN  IF DOMAIN session_data = {}
           THEN /\ nats' = <<>>
                /\ sresp' = Response("stop_session", session_id, "False")
                /\ UNCHANGED tasks
                /\ UNCHANGED <<sessions, sessionTtl>>
           ELSE /\ sessions' = Del(sessions, {session_id})
                /\ sessionTtl' = Del(sessionTtl, {session_id})
                /\ nats' = IF natsUp
                           THEN << StreamMsg(<<"maestra", "stream", "session", "stopped">>,
                                             [type |-> "session_stopped",
                                              session_id |-> session_id,
                                              stream_id |-> stream_id]) >>
                           ELSE <<>>
                /\ sresp' = Response("stop_session", session_id, "True")
                /\ tasks' = IF db_session
                            THEN Put(tasks, LogTask("end", session_id), "pending")
                            ELSE tasks
    /\ UNCHANGED <<streams, streamTtl, streamsAll, streamsByType, sessionsAll,
                   sessionsByStream, calls, streamCount, sessionCount, fresh, lapsed>>
    /\ UNCHANGED <<stateVars, hierVars, stream_sessions, routeVars, relayVars, httpVars, previewVars, mqtt>>

\* DELETE /streams/sessions/{session_id}
stop_session(session_id, natsUp, db_session) ==
    /\ LET session_data == HGetAll(sessions, session_id)
           stream_id == HashGet(session_data, "stream_id", "")
       IN  IF DOMAIN session_data = {}
           THEN /\ nats' = <<>>
                /\ sresp' = Response("stop_session", session_id, "False")
                /\ UNCHANGED tasks
                /\ UNCHANGED <<sessions, sessionTtl, sessionsAll, sessionsByStream>>
           ELSE /\ sessions' = Del(sessions, {session_id})
                /\ sessionTtl' = Del(sessionTtl, {session_id})
                /\ sessionsAll' = sessionsAll \ {session_id}
                /\ sessionsByStream' = IF stream_id # ""
                                       THEN [sessionsByStream EXCEPT
                                               ![stream_id] = @ \ {session_id}]
                                       ELSE sessionsByStream
                /\ nats' = IF natsUp
                           THEN << StreamMsg(<<"maestra", "stream", "session", "stopped">>,
                                             [type |-> "session_stopped",
                                              session_id |-> session_id,
                                              stream_id |-> stream_id]) >>
                           ELSE <<>>
                /\ sresp' = Response("stop_session", session_id, "True")
                /\ tasks' = IF db_session
                            THEN Put(tasks, LogTask("end", session_id), "pending")
                            ELSE tasks
    /\ UNCHANGED <<streams, streamTtl, streamsAll, streamsByType,
                   calls, streamCount, sessionCount, fresh, lapsed>>
    /\ UNCHANGED <<stateVars, hierVars, stream_sessions, routeVars, relayVars, httpVars, previewVars, mqtt>>

\* a stream heartbeat, up to the answer of EXISTS
refresh_stream_ttl_exists(c, stream_id) ==
    /\ CallFree(c)
    /\ IF stream_id \in DOMAIN streams
       THEN /\ calls' = [calls EXCEPT ![c] =
                            [IdleCall EXCEPT !.op = "refresh_stream_ttl",
                                             !.pc = "exists",
                                             !.stream_id = stream_id]]
            /\ sresp' = NoResponse
       ELSE /\ sresp' = Response("refresh_stream_ttl", stream_id, "False")
            /\ UNCHANGED calls
    /\ fresh' = IF stream_id \in DOMAIN fresh /\ stream_id \notin lapsed
                THEN [fresh EXCEPT ![stream_id] = 0] ELSE fresh
    /\ nats' = <<>>
    /\ UNCHANGED <<storeVars, streamCount, sessionCount, lapsed>>
    /\ UNCHANGED <<stateVars, hierVars, logVars, routeVars, relayVars, httpVars, previewVars, mqtt>>

\* the rest of the heartbeat: HSET last_heartbeat, EXPIRE, and the
\* re-broadcast of the record to the topic tree
refresh_stream_ttl_write(c, natsUp) ==
    /\ calls[c].op = "refresh_stream_ttl" /\ calls[c].pc = "exists"
    /\ LET stream_id == calls[c].stream_id
           data == Put(HGetAll(streams, stream_id), "last_heartbeat", "now")
           stream_type == HashGet(data, "stream_type", "sensor")
       IN  /\ streams' = Put(streams, stream_id, data)
           /\ streamTtl' = Put(streamTtl, stream_id, STREAM_TTL)
           /\ nats' = IF natsUp
                      THEN << StreamMsg(<<"maestra", "to_mqtt", "maestra", "stream",
                                          "advertise", stream_type>>,
                                        [id |-> HashGet(data, "id", stream_id),
                                         stream_type |-> stream_type]) >>
                      ELSE <<>>
           /\ sresp' = Response("refresh_stream_ttl", stream_id, "True")
    /\ calls' = [calls EXCEPT ![c] = IdleCall]
    /\ UNCHANGED <<streamsAll, streamsByType, sessions, sessionTtl, sessionsAll,
                   sessionsByStream, streamCount, sessionCount, fresh, lapsed>>
    /\ UNCHANGED <<stateVars, hierVars, logVars, routeVars, relayVars, httpVars, previewVars, mqtt>>

\* a session heartbeat that writes to the key as the stream heartbeat does
refresh_session_ttl_hset(session_id) ==
    /\ sessions' = Put(sessions, session_id,
                       Put(HGetAll(sessions, session_id), "last_heartbeat", "now"))
    /\ sessionTtl' = Put(sessionTtl, session_id, SESSION_TTL)
    /\ sresp' = Response("refresh_session_ttl", session_id, "True")
    /\ nats' = <<>>
    /\ UNCHANGED <<streams, streamTtl, streamsAll, streamsByType, sessionsAll,
                   sessionsByStream, calls, streamCount, sessionCount, fresh, lapsed>>
    /\ UNCHANGED <<stateVars, hierVars, logVars, routeVars, relayVars, httpVars, mqtt>>

\* a session heartbeat: EXISTS, then EXPIRE
refresh_session_ttl(session_id) ==
    /\ IF session_id \in DOMAIN sessions
       THEN /\ sessionTtl' = [sessionTtl EXCEPT ![session_id] = SESSION_TTL]
            /\ sresp' = Response("refresh_session_ttl", session_id, "True")
       ELSE /\ sresp' = Response("refresh_session_ttl", session_id, "False")
            /\ UNCHANGED sessionTtl
    /\ nats' = <<>>
    /\ UNCHANGED <<streams, streamTtl, streamsAll, streamsByType, sessions, sessionsAll,
                   sessionsByStream, calls, streamCount, sessionCount, fresh, lapsed>>
    /\ UNCHANGED <<stateVars, hierVars, logVars, routeVars, relayVars, httpVars, mqtt>>

\* the INSERT of a pending start task commits
_log_session_start(session_id) ==
    /\ LogTask("start", session_id) \in DOMAIN tasks
    /\ tasks[LogTask("start", session_id)] = "pending"
    /\ stream_sessions' = Put(stream_sessions, session_id,
                              [status |-> "active", ended_at |-> "NULL",
                               duration_seconds |-> "NULL"])
    /\ tasks' = [tasks EXCEPT ![LogTask("start", session_id)] = "done"]
    /\ UNCHANGED <<stateVars, hierVars, streamVars, routeVars, relayVars, httpVars, previewVars, nats, mqtt>>

\* the UPDATE of a pending end task commits: it changes the rows WHERE
\* session_id is the task's, if there are any
_log_session_end(session_id) ==
    /\ LogTask("end", session_id) \in DOMAIN tasks
    /\ tasks[LogTask("end", session_id)] = "pending"
    /\ stream_sessions' =
          IF session_id \in DOMAIN stream_sessions
          THEN [stream_sessions EXCEPT ![session_id] =
                   [status |-> "stopped", ended_at |-> "utcnow",
                    duration_seconds |-> "elapsed"]]
          ELSE stream_sessions
    /\ tasks' = [tasks EXCEPT ![LogTask("end", session_id)] = "done"]
    /\ UNCHANGED <<stateVars, hierVars, streamVars, routeVars, relayVars, httpVars, previewVars, nats, mqtt>>

\* the store after step seconds: the keys whose time is up are gone
Aged(step) ==
    LET liveStreams == {k \in DOMAIN streams : streamTtl[k] > step}
        liveSessions == {k \in DOMAIN sessions : sessionTtl[k] > step}
        age(s) == IF fresh[s] + step >= STREAM_TTL
                  THEN STREAM_TTL ELSE fresh[s] + step
    IN  [streams |-> [k \in liveStreams |-> streams[k]],
         streamTtl |-> [k \in liveStreams |-> streamTtl[k] - step],
         sessions |-> [k \in liveSessions |-> sessions[k]],
         sessionTtl |-> [k \in liveSessions |-> sessionTtl[k] - step],
         fresh |-> [s \in DOMAIN fresh |-> age(s)],
         lapsed |-> lapsed \cup {s \in DOMAIN fresh : age(s) >= STREAM_TTL}]

\* TickStep seconds pass: the store drops the keys whose time is up, and a
\* request that has waited REQUEST_TIMEOUT seconds times out before more
\* time passes
Tick ==
    /\ \A c \in Calls : calls[c].pc = "waiting" => calls[c].waited < REQUEST_TIMEOUT
    /\ LET aged == Aged(TickStep)
       IN  /\ streams' = aged.streams
           /\ streamTtl' = aged.streamTtl
           /\ sessions' = aged.sessions
           /\ sessionTtl' = aged.sessionTtl
           /\ fresh' = aged.fresh
           /\ lapsed' = aged.lapsed
    /\ calls' = [c \in Calls |->
                    IF calls[c].pc = "waiting"
                    THEN [calls[c] EXCEPT !.waited = @ + TickStep]
                    ELSE calls[c]]
    /\ nats' = <<>>
    /\ sresp' = NoResponse
    /\ UNCHANGED <<streamsAll, streamsByType, sessionsAll, sessionsByStream,
                   streamCount, sessionCount>>
    /\ UNCHANGED <<stateVars, hierVars, logVars, routeVars, relayVars, httpVars, previewVars, mqtt>>

(***************************************************************************)
(* Routing: devices with named ports, routes between ports, presets        *)
(* (routing_router.py over the tables of database.py).  A handler runs in  *)
(* one transaction of the durable store and is one step.  The routes table *)
(* has no key but the row id, so it can hold several rows with the same    *)
(* values: it is kept as the number of rows per value.                     *)
(***************************************************************************)
MaxDevices == 2
MaxPresets == 2
MaxRoutes == 3
MaxBulk == 2

DeviceIdSeq == <<"d1", "d2", "d3">>
PresetIdSeq == <<"p1", "p2", "p3">>
DeviceIds == {DeviceIdSeq[i] : i \in 1..MaxDevices}
PresetIds == {PresetIdSeq[i] : i \in 1..MaxPresets}
\* preset_id of an active route
NoPreset == "NULL"
OutputPorts == {"out"}
InputPorts == {"in"}

\* the bodies of POST /routing/routes
RouteCreates ==
    [from_device_id : DeviceIds, from_port : OutputPorts,
     to_device_id : DeviceIds, to_port : InputPorts]

\* the bodies of PUT /routing/routes
RouteBulkUpdates ==
    UNION {[1..n -> RouteCreates] : n \in 0..MaxBulk}

\* the bodies of PUT /routing/devices/{id}: the fields that are set
RoutingDeviceUpdates ==
    {EmptyHash} \cup
    {[inputs |-> i] : i \in SUBSET InputPorts} \cup
    {[outputs |-> o] : o \in SUBSET OutputPorts}

RouteDB(route, preset_id) ==
    [from_device_id |-> route.from_device_id, from_port |-> route.from_port,
     to_device_id |-> route.to_device_id, to_port |-> route.to_port,
     preset_id |-> preset_id]

\* the rows a table can hold
RouteRows == {RouteDB(r, p) : r \in RouteCreates, p \in PresetIds \cup {NoPreset}}

\* number of rows of the table with these values
Copies(table, row) == IF row \in DOMAIN table THEN table[row] ELSE 0

RECURSIVE RowCountOf(_, _)
RowCountOf(table, rows) ==
    IF rows = {} THEN 0
    ELSE LET r == CHOOSE r \in rows : TRUE
         IN  table[r] + RowCountOf(table, rows \ {r})

RowCount(table) == RowCountOf(table, DOMAIN table)

\* db.add of one row
AddRow(table, row) ==
    [r \in DOMAIN table \cup {row} |-> Copies(table, r) + IF r = row THEN 1 ELSE 0]

RECURSIVE AddRows(_, _)
AddRows(table, rows) ==
    IF rows = <<>> THEN table ELSE AddRows(AddRow(table, Head(rows)), Tail(rows))

\* DELETE of the row with one id
DeleteRow(table, row) ==
    [r \in {q \in DOMAIN table : q # row \/ table[q] > 1} |->
        IF r = row THEN table[r] - 1 ELSE table[r]]

\* DELETE ... WHERE preset_id = preset_id
DeleteRoutesOf(table, preset_id) ==
    [r \in {q \in DOMAIN table : q.preset_id # preset_id} |-> table[r]]

\* one new row with preset_id to for every row with preset_id from
CopyRoutes(table, from, to) ==
    LET copied == {[q EXCEPT !.preset_id = to] :
                      q \in {r \in DOMAIN table : r.preset_id = from}}
    IN  [r \in DOMAIN table \cup copied |->
            Copies(table, r) +
            IF r.preset_id = to THEN Copies(table, [r EXCEPT !.preset_id = from])
            ELSE 0]

RouteResponse(op, code) == [op |-> op, code |-> code]

RouteUntouched ==
    UNCHANGED <<stateVars, hierVars, streamVars, logVars, relayVars, httpVars, previewVars,
                nats, mqtt>>

\* POST /routing/devices
create_routing_device(inputs, outputs) ==
    /\ Cardinality(DOMAIN routing_devices) < MaxDevices
    /\ LET id == DeviceIdSeq[Cardinality(DOMAIN routing_devices) + 1]
       IN  routing_devices' = Put(routing_devices, id,
                                  [inputs |-> inputs, outputs |-> outputs])
    /\ rresp' = RouteResponse("create_routing_device", 201)
    /\ UNCHANGED <<routes, route_presets>>
    /\ RouteUntouched

\* PUT /routing/devices/{device_id}
update_routing_device(device_id, update_data) ==
    /\ IF device_id \notin DOMAIN routing_devices
       THEN /\ rresp' = RouteResponse("update_routing_device", 404)
            /\ UNCHANGED routing_devices
       ELSE /\ routing_devices' =
                  [routing_devices EXCEPT ![device_id] =
                      [key \in {"inputs", "outputs"} |->
                          HashGet(update_data, key, @[key])]]
            /\ rresp' = RouteResponse("update_routing_device", 200)
    /\ UNCHANGED <<routes, route_presets>>
    /\ RouteUntouched

\* POST /routing/routes.  scalar_one_or_none raises when the duplicate check
\* finds more than one row.
create_route(route) ==
    /\ LET row == RouteDB(route, NoPreset)
           code == IF {route.from_device_id, route.to_device_id}
                        \subseteq DOMAIN routing_devices
                   THEN IF route.from_port
                             \notin routing_devices[route.from_device_id].outputs
                        THEN 400
                        ELSE IF route.to_port
                                  \notin routing_devices[route.to_device_id].inputs
                        THEN 400
                        ELSE IF Copies(routes, row) > 1 THEN 500
                        ELSE IF Copies(routes, row) = 1 THEN 409
                        ELSE 201
                   ELSE 404
       IN  /\ code = 201 => RowCount(routes) < MaxRoutes
           /\ routes' = IF code = 201 THEN AddRow(routes, row) ELSE routes
           /\ rresp' = RouteResponse("create_route", code)
    /\ UNCHANGED <<routing_devices, route_presets>>
    /\ RouteUntouched

\* DELETE /routing/routes/{route_id}, for the id of a row with these values
delete_route(row) ==
    /\ IF Copies(routes, row) = 0
       THEN /\ rresp' = RouteResponse("delete_route", 404)
            /\ UNCHANGED routes
       ELSE /\ routes' = DeleteRow(routes, row)
            /\ rresp' = RouteResponse("delete_route", 200)
    /\ UNCHANGED <<routing_devices, route_presets>>
    /\ RouteUntouched

\* PUT /routing/routes.  A row that names a device that does not exist breaks
\* the foreign key: the commit raises and the transaction is rolled back.
replace_all_routes(bulk) ==
    /\ LET devices == {bulk[i].from_device_id : i \in DOMAIN bulk}
                         \cup {bulk[i].to_device_id : i \in DOMAIN bulk}
           new_routes == [i \in DOMAIN bulk |-> RouteDB(bulk[i], NoPreset)]
           inserted == AddRows(DeleteRoutesOf(routes, NoPreset), new_routes)
       IN  IF devices \subseteq DOMAIN routing_devices
           THEN /\ RowCount(inserted) <= MaxRoutes
                /\ routes' = inserted
                /\ rresp' = RouteResponse("replace_all_routes", 200)
           ELSE /\ rresp' = RouteResponse("replace_all_routes", 500)
                /\ UNCHANGED routes
    /\ UNCHANGED <<routing_devices, route_presets>>
    /\ RouteUntouched

\* POST /routing/presets.  The id is a fresh uuid4: a preset that was deleted
\* has left no row behind, so its id stands for a fresh one.
create_preset ==
    /\ DOMAIN route_presets # PresetIds
    /\ LET n == CHOOSE i \in 1..MaxPresets :
                    /\ PresetIdSeq[i] \notin DOMAIN route_presets
                    /\ \A j \in 1..(i - 1) : PresetIdSeq[j] \in DOMAIN route_presets
       IN  route_presets' = Put(route_presets, PresetIdSeq[n], [is_active |-> FALSE])
    /\ rresp' = RouteResponse("create_preset", 201)
    /\ UNCHANGED <<routing_devices, routes>>
    /\ RouteUntouched

\* PUT /routing/presets/{preset_id}: RoutePresetUpdate has name, description
\* and metadata only, is_active is not among the fields it can set
update_preset(preset_id) ==
    /\ rresp' = RouteResponse("update_preset",
                              IF preset_id \in DOMAIN route_presets THEN 200 ELSE 404)
    /\ UNCHANGED <<routing_devices, routes, route_presets>>
    /\ RouteUntouched

\* DELETE /routing/presets/{preset_id}: routes.preset_id is a foreign key with
\* ON DELETE CASCADE
delete_preset(preset_id) ==
    /\ IF preset_id \notin DOMAIN route_presets
       THEN /\ rresp' = RouteResponse("delete_preset", 404)
            /\ UNCHANGED <<routes, route_presets>>
       ELSE /\ route_presets' = [p \in DOMAIN route_presets \ {preset_id} |->
                                    route_presets[p]]
            /\ routes' = DeleteRoutesOf(routes, preset_id)
            /\ rresp' = RouteResponse("delete_preset", 200)
    /\ UNCHANGED routing_devices
    /\ RouteUntouched

\* save_current_to_preset without the DELETE of the preset's routes
save_current_to_preset_append(preset_id) ==
    /\ IF preset_id \notin DOMAIN route_presets
       THEN /\ rresp' = RouteResponse("save_current_to_preset", 404)
            /\ UNCHANGED routes
       ELSE LET saved == CopyRoutes(routes, NoPreset, preset_id)
            IN  /\ RowCount(saved) <= MaxRoutes
                /\ routes' = saved
                /\ rresp' = RouteResponse("save_current_to_preset", 200)
    /\ UNCHANGED <<routing_devices, route_presets>>
    /\ RouteUntouched

\* POST /routing/presets/{preset_id}/save
save_current_to_preset(preset_id) ==
    /\ IF preset_id \notin DOMAIN route_presets
       THEN /\ rresp' = RouteResponse("save_current_to_preset", 404)
            /\ UNCHANGED routes
       ELSE LET saved == CopyRoutes(DeleteRoutesOf(routes, preset_id),
                                    NoPreset, preset_id)
            IN  /\ RowCount(saved) <= MaxRoutes
                /\ routes' = saved
                /\ rresp' = RouteResponse("save_current_to_preset", 200)
    /\ UNCHANGED <<routing_devices, route_presets>>
    /\ RouteUntouched

\* recall_preset without the UPDATE that clears is_active on every preset
recall_preset_keep_flags(preset_id) ==
    /\ IF preset_id \notin DOMAIN route_presets
       THEN /\ rresp' = RouteResponse("recall_preset", 404)
            /\ UNCHANGED <<routes, route_presets>>
       ELSE LET recalled == CopyRoutes(DeleteRoutesOf(routes, NoPreset),
                                       preset_id, NoPreset)
            IN  /\ RowCount(recalled) <= MaxRoutes
                /\ routes' = recalled
                /\ route_presets' = [route_presets EXCEPT
                                        ![preset_id] = [is_active |-> TRUE]]
                /\ rresp' = RouteResponse("recall_preset", 200)
    /\ UNCHANGED routing_devices
    /\ RouteUntouched

\* POST /routing/presets/{preset_id}/recall
recall_preset(preset_id) ==
    /\ IF preset_id \notin DOMAIN route_presets
       THEN /\ rresp' = RouteResponse("recall_preset", 404)
            /\ UNCHANGED <<routes, route_presets>>
       ELSE LET recalled == CopyRoutes(DeleteRoutesOf(routes, NoPreset),
                                       preset_id, NoPreset)
            IN  /\ RowCount(recalled) <= MaxRoutes
                /\ routes' = recalled
                /\ route_presets' = [p \in DOMAIN route_presets |->
                                        [is_active |-> p = preset_id]]
                /\ rresp' = RouteResponse("recall_preset", 200)
    /\ UNCHANGED routing_devices
    /\ RouteUntouched

(***************************************************************************)
(* mqtt-nats-bridge/bridge.py.  A topic or a subject is the sequence of    *)
(* its characters, with a word standing for the characters of a level.  A  *)
(* message body is a text; json.loads, json.dumps and str are the tables   *)
(* of what they return on the bodies in use.  The bridge publishes are     *)
(* logged on nats and mqtt: a callback replaces both by what it publishes. *)
(***************************************************************************)
MQTT_TO_NATS_PREFIX == <<"maestra", ".", "mqtt">>

\* the topics of the subscription maestra/#
MqttTopics ==
    {<<"maestra", "/", "x", "/", "y">>, <<"maestra", "/", "x">>,
     <<"maestra", "/", "x", ".", "y">>, <<"maestra">>}

\* the subjects of the subscription maestra.to_mqtt.>
ToMqttSubjects ==
    {<<"maestra", ".", "to_mqtt", ".", "a", ".", "b">>,
     <<"maestra", ".", "to_mqtt", ".", "a">>,
     <<"maestra", ".", "to_mqtt", ".", "a", "/", "b">>,
     <<"maestra", ".", "to_mqtt", ".", "maestra", ".", "x", ".", "y">>,
     <<"maestra", ".", "to_mqtt", ".", "maestra", ".", "to_mqtt", ".", "a">>}

Bodies == {"{\"payload\": \"hi\"}", "{\"v\":1}", "[1, \"a\"]", "true", "hi"}

\* str.replace(old, new), for one character
replace(text, old, new) ==
    [i \in DOMAIN text |-> IF text[i] = old THEN new ELSE text[i]]

startswith(text, prefix) ==
    Len(text) >= Len(prefix) /\ SubSeq(text, 1, Len(prefix)) = prefix

mqtt_topic_to_nats_subject_under_to_mqtt(topic) ==
    <<"maestra", ".", "to_mqtt", ".">> \o replace(topic, "/", ".")
mqtt_topic_to_nats_subject(topic) ==
    MQTT_TO_NATS_PREFIX \o <<".">> \o replace(topic, "/", ".")

nats_subject_to_mqtt_topic(subject) ==
    LET prefix == <<"maestra", ".", "to_mqtt", ".">>
    IN  IF startswith(subject, prefix)
        THEN replace(SubSeq(subject, Len(prefix) + 1, Len(subject)), ".", "/")
        ELSE subject

\* json.loads(text): ok is FALSE when it raises; isdict: the value is a
\* dict; has_payload and payload: "payload" in it and its value; dumps and
\* repr: what json.dumps and str return for the value
NotJson ==
    [ok |-> FALSE, isdict |-> FALSE, has_payload |-> FALSE, payload |-> "",
     dumps |-> "", repr |-> ""]

json_loads(text) ==
    CASE text = "{\"payload\": \"hi\"}" ->
            [ok |-> TRUE, isdict |-> TRUE, has_payload |-> TRUE, payload |-> "hi",
             dumps |-> "{\"payload\": \"hi\"}", repr |-> "{'payload': 'hi'}"]
      [] text \in {"{\"v\":1}", "{\"v\": 1}"} ->
            [ok |-> TRUE, isdict |-> TRUE, has_payload |-> FALSE, payload |-> "",
             dumps |-> "{\"v\": 1}", repr |-> "{'v': 1}"]
      [] text = "[1, \"a\"]" ->
            [ok |-> TRUE, isdict |-> FALSE, has_payload |-> FALSE, payload |-> "",
             dumps |-> "[1, \"a\"]", repr |-> "[1, 'a']"]
      [] text = "true" ->
            [ok |-> TRUE, isdict |-> FALSE, has_payload |-> FALSE, payload |-> "",
             dumps |-> "true", repr |-> "True"]
      [] OTHER -> NotJson

\* asyncio.run(main()) runs the event loop in the main thread; loop_start()
\* runs the network loop of the MQTT client, and with it on_mqtt_message, in
\* a thread of its own.  asyncio.create_task raises RuntimeError in a thread
\* that runs no event loop.
EventLoopThread == "MainThread"
MqttCallbackThread == "mqtt network loop"
create_task_raises(thread) == thread # EventLoopThread

\* the task of publish_to_nats: nc.publish, an exception of which is logged
publish_to_nats(subject, message, raises) ==
    IF raises THEN <<>> ELSE <<[subject |-> subject, data |-> message]>>

\* on_mqtt_message(client, userdata, msg)
on_mqtt_message(topic, body, qos) ==
    /\ LET nats_subject == mqtt_topic_to_nats_subject(topic)
           parsed == json_loads(body)
           message == [source |-> "mqtt", topic |-> topic, payload |-> body,
                       qos |-> qos,
                       data |-> IF parsed.ok
                                THEN [json |-> TRUE, value |-> parsed.dumps]
                                ELSE [json |-> FALSE, value |-> body]]
       IN  IF create_task_raises(MqttCallbackThread)
           THEN /\ nats' = <<>>
                /\ relay' = [op |-> "on_mqtt_message", path |-> topic, body |-> body,
                             qos |-> qos, connected |-> FALSE,
                             raised |-> "RuntimeError"]
           ELSE \E raises \in BOOLEAN :
                /\ nats' = publish_to_nats(nats_subject, message, raises)
                /\ relay' = [op |-> "on_mqtt_message", path |-> topic, body |-> body,
                             qos |-> qos, connected |-> FALSE, raised |-> ""]
    /\ mqtt' = <<>>
    /\ UNCHANGED <<stateVars, hierVars, streamVars, logVars, routeVars, previewVars, httpVars>>

\* nats_message_handler(msg); connected: mqtt_client.is_connected()
nats_message_handler(subject, body, connected) ==
    /\ LET parsed == json_loads(body)
           data == IF parsed.ok THEN parsed
                   ELSE [NotJson EXCEPT !.ok = TRUE, !.isdict = TRUE,
                                        !.has_payload = TRUE, !.payload = body]
           mqtt_topic == nats_subject_to_mqtt_topic(subject)
           payload == IF data.isdict
                      THEN IF data.has_payload THEN data.payload ELSE data.dumps
                      ELSE data.repr
       IN  mqtt' = IF connected
                   THEN <<[topic |-> mqtt_topic, payload |-> payload]>>
                   ELSE <<>>
    /\ nats' = <<>>
    /\ relay' = [op |-> "nats_message_handler", path |-> subject, body |-> body,
                 qos |-> 0, connected |-> connected, raised |-> ""]
    /\ UNCHANGED <<stateVars, hierVars, streamVars, logVars, routeVars, previewVars, httpVars>>

(***************************************************************************)
(* stream_preview.py: the preview route and its two generators.  A         *)
(* generator is at a yield or at an await between its steps; the events it *)
(* has yielded are kept in order.  A datagram is its length in bytes and   *)
(* what the decoders read of them: the fields of an SDRF header and the    *)
(* floats that follow it.                                                  *)
(***************************************************************************)
PROXYABLE_TYPES == {"sensor", "data", "osc", "midi", "audio"}
SDRF_MAGIC == 1396986438
MaxEvents == 3

\* A float64 of the publisher is written as a whole number: a frequency in
\* Hz, a power in units of 2^-20 dB (all of these are exact doubles).
\* astype(np.float32) keeps 24 significant bits, rounding to the nearest
\* value and a tie to the even one.
float32(x) ==
    LET a == IF x < 0 THEN 0 - x ELSE x
        q == CASE a < 16777216 -> 1
               [] a < 33554432 -> 2
               [] a < 67108864 -> 4
               [] a < 134217728 -> 8
               [] a < 268435456 -> 16
               [] a < 536870912 -> 32
               [] a < 1073741824 -> 64
               [] OTHER -> 128
        low == (a \div q) * q
        up == \/ 2 * (a - low) > q
              \/ 2 * (a - low) = q /\ (low \div q) % 2 = 1
        m == IF up THEN low + q ELSE low
    IN  IF x < 0 THEN 0 - m ELSE m

\* a pack that writes the body in double precision
pack_spectrum_packet_float64(center_freq, sample_rate, power_db, seq) ==
    [len |-> 36 + 4 * Len(power_db), magic |-> SDRF_MAGIC, seq |-> seq,
     center_freq |-> center_freq, sample_rate |-> sample_rate,
     fft_size |-> Len(power_db), body |-> power_db]

\* rtl_sdr_maestra.py, struct.pack("<IIdddI", ...) + float32 body: a packet
\* is its length in bytes, the fields of its header and the floats of its
\* body
pack_spectrum_packet(center_freq, sample_rate, power_db, seq) ==
    [len |-> 36 + 4 * Len(power_db), magic |-> SDRF_MAGIC, seq |-> seq,
     center_freq |-> center_freq, sample_rate |-> sample_rate,
     fft_size |-> Len(power_db),
     body |-> [i \in DOMAIN power_db |-> float32(power_db[i])]]

\* the first n bytes of a packet: the fields that end within them
truncate(packet, n) ==
    IF n >= packet.len THEN packet
    ELSE [len |-> n,
          magic |-> IF n >= 4 THEN packet.magic ELSE 0,
          seq |-> IF n >= 8 THEN packet.seq ELSE 0,
          center_freq |-> IF n >= 16 THEN packet.center_freq ELSE 0,
          sample_rate |-> IF n >= 24 THEN packet.sample_rate ELSE 0,
          fft_size |-> IF n >= 36 THEN packet.fft_size ELSE 0,
          body |-> SubSeq(packet.body, 1, IF n < 36 THEN 0 ELSE (n - 36) \div 4)]

\* what the publisher packs: sequence 7 at 100 MHz and 2.048 MS/s with the
\* bins (-40 dB, -35 dB), with one bin of -40 dB - 2^-20 dB, and with no bin
SpectrumInputs ==
    {[center_freq |-> 100000000, sample_rate |-> 2048000, seq |-> 7, power_db |-> bins] :
       bins \in {<<-41943040, -36700160>>, <<-41943041>>, <<>>}}

Packed(input) ==
    pack_spectrum_packet(input.center_freq, input.sample_rate, input.power_db, input.seq)

\* the datagrams that reach the proxy: the publisher's packets, whole, cut
\* short or with another magic, an empty datagram, and 300 bytes of
\* something else
Datagrams ==
    {Packed(input) : input \in SpectrumInputs}
      \cup {truncate(Packed(input), n) : input \in SpectrumInputs, n \in {0, 20, 40}}
      \cup {[Packed(input) EXCEPT !.magic = 0] : input \in SpectrumInputs}
      \cup {[len |-> 300, magic |-> 0, seq |-> 0, center_freq |-> 0, sample_rate |-> 0,
             fft_size |-> 0, body |-> <<>>]}

\* what a decoder returns: None, or a dict (hex is the number of hex digits;
\* _seq is the number the proxy adds)
DecodedNone ==
    [type |-> "None", size |-> 0, hex |-> 0, seq |-> 0, center_freq |-> 0,
     sample_rate |-> 0, fft_size |-> 0, power_db |-> <<>>, _seq |-> 0]

decode_sdrf(packet) ==
    IF packet.len < 36 THEN DecodedNone
    ELSE IF packet.magic # SDRF_MAGIC THEN DecodedNone
    ELSE IF packet.len < 36 + packet.fft_size * 4 THEN DecodedNone
    ELSE [DecodedNone EXCEPT !.type = "sensor", !.seq = packet.seq,
                             !.center_freq = packet.center_freq,
                             !.sample_rate = packet.sample_rate,
                             !.fft_size = packet.fft_size,
                             !.power_db = SubSeq(packet.body, 1, packet.fft_size)]

decode_raw(packet) ==
    [DecodedNone EXCEPT !.type = "raw", !.size = packet.len,
                        !.hex = 2 * (IF packet.len < 256 THEN packet.len ELSE 256)]

\* the decoder of a stream type; the model advertises no stream of a type
\* decoded by decode_json_packet or decode_audio_packet
get_decoder(stream_type) ==
    CASE stream_type = "sensor" -> "decode_sdrf"
      [] stream_type \in {"data", "osc", "midi"} -> "decode_json_packet"
      [] stream_type = "audio" -> "decode_audio_packet"
      [] OTHER -> "decode_raw"

\* pc: "idle" no request yet; "info": _connection_info_generator not yet
\* started; "sleeping": it is at its sleep; "proxy": _proxy_generator not yet
\* started; "negotiating": at await request_stream; "receiving": at await
\* sock_recv; "failed": at the yield of an error event; "done": the run is
\* over.  sock: "none", "open" or "closed".  exit: how a generator ended:
\* "cancelled", "break" (the receive loop was left) or "error" (after the
\* yield of an error event).
NoPreview ==
    [pc |-> "idle", status |-> 0, stream_id |-> "", stream_type |-> "",
     sock |-> "none", call |-> 0, session_id |-> "", events |-> <<>>, exit |-> "",
     since |-> 0]

\* yield sse_event(event_type, data): the run with one more event yielded
sse_event(event_type, data) ==
    [preview EXCEPT !.events = Append(@, [event |-> event_type, data |-> data])]

\* a step of the preview that touches nothing but the run
PreviewOnly ==
    UNCHANGED <<stateVars, hierVars, streamVars, logVars, routeVars, relayVars, httpVars,
                nats, mqtt>>

\* GET /streams/{stream_id}/preview
stream_preview(stream_id) ==
    /\ preview.pc = "idle"
    /\ LET stream_data == get_stream(stream_id)
       IN  preview' =
             IF ~stream_data.found
             THEN [NoPreview EXCEPT !.pc = "done", !.status = 404,
                                    !.stream_id = stream_id]
             ELSE [NoPreview EXCEPT
                     !.pc = IF stream_data.stream_type \notin PROXYABLE_TYPES
                            THEN "info" ELSE "proxy",
                     !.status = 200, !.stream_id = stream_id,
                     !.stream_type = stream_data.stream_type]
    /\ PreviewOnly

\* _connection_info_generator up to its first sleep
_connection_info_generator ==
    /\ preview.pc = "info"
    /\ preview' = [sse_event("info", DecodedNone) EXCEPT !.pc = "sleeping"]
    /\ PreviewOnly

\* ... and each time its sleep of 15 seconds ends
_connection_info_generator_heartbeat ==
    /\ preview.pc = "sleeping"
    /\ Len(preview.events) < MaxEvents
    /\ preview' = sse_event("heartbeat", DecodedNone)
    /\ PreviewOnly

\* a run that ends without closing the socket it bound
disconnect_leaving_socket ==
    /\ preview.pc \in {"info", "sleeping", "proxy", "negotiating", "receiving", "failed"}
    /\ preview' = [preview EXCEPT !.pc = "done", !.exit = "cancelled"]
    /\ calls' = IF preview.pc = "negotiating"
                THEN [calls EXCEPT ![preview.call] = IdleCall] ELSE calls
    /\ UNCHANGED <<storeVars, sresp, streamCount, sessionCount, fresh, lapsed>>
    /\ UNCHANGED <<stateVars, hierVars, logVars, routeVars, relayVars, httpVars, nats, mqtt>>

\* the client goes away: the task of the response is cancelled at its await
\* (CancelledError) or the generator is closed at its yield (GeneratorExit),
\* and the finally of _proxy_generator closes the socket if there is one.
\* A request_stream the generator is waiting in ends with it.
disconnect ==
    /\ preview.pc \in {"info", "sleeping", "proxy", "negotiating", "receiving", "failed"}
    /\ preview' = [preview EXCEPT !.pc = "done", !.exit = "cancelled",
                                  !.sock = IF @ = "open" THEN "closed" ELSE @]
    /\ calls' = IF preview.pc = "negotiating"
                THEN [calls EXCEPT ![preview.call] = IdleCall] ELSE calls
    /\ UNCHANGED <<storeVars, sresp, streamCount, sessionCount, fresh, lapsed>>
    /\ UNCHANGED <<stateVars, hierVars, logVars, routeVars, relayVars, httpVars, nats, mqtt>>

\* _proxy_generator from its start to the await in request_stream: the
\* socket is bound, the stream is looked up and the request is sent
_proxy_generator_bind(c, natsUp) ==
    /\ preview.pc = "proxy"
    /\ request_stream_send(c, preview.stream_id, natsUp)
    /\ preview' =
          IF calls'[c].pc = "waiting"
          THEN [preview EXCEPT !.pc = "negotiating", !.sock = "open", !.call = c]
          ELSE [sse_event("error", DecodedNone) EXCEPT !.pc = "failed", !.sock = "open"]

\* ... from the end of request_stream to the await of sock_recv, or to the
\* yield of the error event
_proxy_generator_offer(outcome, offer_data, natsUp) ==
    /\ preview.pc = "negotiating"
    /\ request_stream_reply(preview.call, outcome, offer_data, natsUp, FALSE)
    /\ preview' =
          IF sresp'.resp = "offer"
          THEN [sse_event("info", DecodedNone) EXCEPT
                  !.pc = "receiving", !.call = 0,
                  !.session_id = sresp'.offer.session_id]
          ELSE [sse_event("error", DecodedNone) EXCEPT !.pc = "failed", !.call = 0]

\* the seconds sock_recv waits at most, the seconds after which a session
\* heartbeat is due, and the seconds a datagram lets sock_recv wait
RECV_TIMEOUT == 5
HEARTBEAT_AFTER == 10
RecvDelays == {0, 4}

\* if now - last_heartbeat > 10, after a round that waited d seconds in
\* sock_recv
heartbeat_due_after_ttl(d) == preview.since + d > HEARTBEAT_AFTER + SESSION_TTL
heartbeat_due(d) == preview.since + d > HEARTBEAT_AFTER

\* now - last_heartbeat at the end of that round
last_heartbeat(d) == IF heartbeat_due(d) THEN 0 ELSE preview.since + d

\* d seconds pass in sock_recv; then the periodic session heartbeat:
\* if now - last_heartbeat > 10, refresh_session_ttl (EXISTS, then EXPIRE)
\* when the offer named a session, and last_heartbeat = now
session_heartbeat(d) ==
    LET aged == Aged(d)
        session_id == preview.session_id
        due == heartbeat_due(d)
        exists == session_id \in DOMAIN aged.sessions
    IN  /\ streams' = aged.streams
        /\ streamTtl' = aged.streamTtl
        /\ sessions' = aged.sessions
        /\ sessionTtl' = IF due /\ session_id # "" /\ exists
                         THEN [aged.sessionTtl EXCEPT ![session_id] = SESSION_TTL]
                         ELSE aged.sessionTtl
        /\ fresh' = aged.fresh
        /\ lapsed' = aged.lapsed
        /\ IF due /\ session_id # ""
           THEN /\ sresp' = Response("refresh_session_ttl", session_id,
                                     IF exists THEN "True" ELSE "False")
                /\ nats' = <<>>
           ELSE UNCHANGED <<sresp, nats>>
        /\ UNCHANGED <<streamsAll, streamsByType, sessionsAll, sessionsByStream,
                       calls, streamCount, sessionCount>>
        /\ UNCHANGED <<stateVars, hierVars, logVars, routeVars, relayVars, httpVars, mqtt>>

\* ... one round of the receive loop in which sock_recv returns a datagram
_proxy_generator_recv(packet, d) ==
    /\ preview.pc = "receiving"
    /\ IF packet.len = 0
       THEN /\ preview' = [preview EXCEPT !.pc = "done", !.sock = "closed",
                                          !.exit = "break"]
            /\ PreviewOnly
       ELSE LET decoder == get_decoder(preview.stream_type)
                first == CASE decoder = "decode_sdrf" -> decode_sdrf(packet)
                           [] decoder = "decode_raw" -> decode_raw(packet)
                decoded == IF first = DecodedNone THEN decode_raw(packet) ELSE first
                seq == Cardinality({i \in DOMAIN preview.events :
                                       preview.events[i].event = "preview"})
            IN  /\ preview' = [sse_event("preview", [decoded EXCEPT !._seq = seq])
                                  EXCEPT !.since = last_heartbeat(d)]
                /\ session_heartbeat(d)

\* ... one round in which sock_recv times out after 5 seconds
_proxy_generator_timeout ==
    /\ preview.pc = "receiving"
    /\ preview' = [sse_event("heartbeat", DecodedNone)
                     EXCEPT !.since = last_heartbeat(RECV_TIMEOUT)]
    /\ session_heartbeat(RECV_TIMEOUT)

\* ... a round in which sock_recv, the decoder or the heartbeat raises
_proxy_generator_raise ==
    /\ preview.pc = "receiving"
    /\ preview' = [sse_event("error", DecodedNone) EXCEPT !.pc = "failed"]
    /\ PreviewOnly

\* ... from the yield of an error event to the end
_proxy_generator_return ==
    /\ preview.pc = "failed"
    /\ preview' = [preview EXCEPT !.pc = "done", !.sock = "closed", !.exit = "error"]
    /\ PreviewOnly

(***************************************************************************)
(* The routers: the routes of each APIRouter in the order of their         *)
(* decorators, paths relative to the router's prefix and split at the      *)
(* slashes.  A request goes to the first route whose path pattern and      *)
(* method both match; a {parameter} segment matches any one segment, and   *)
(* the type of the handler's argument (UUID) is looked at only after the   *)
(* route has been chosen.                                                  *)
(***************************************************************************)
stream_router ==
    <<[method |-> "GET", path |-> <<"state">>, endpoint |-> "get_stream_state"],
      [method |-> "GET", path |-> <<"types">>, endpoint |-> "list_stream_types"],
      [method |-> "POST", path |-> <<"types">>, endpoint |-> "create_stream_type"],
      [method |-> "GET", path |-> <<>>, endpoint |-> "list_streams"],
      [method |-> "POST", path |-> <<"advertise">>, endpoint |-> "advertise_stream"],
      [method |-> "GET", path |-> <<"sessions">>, endpoint |-> "list_sessions"],
      [method |-> "GET", path |-> <<"sessions", "history">>, endpoint |-> "get_session_history"],
      [method |-> "DELETE", path |-> <<"sessions", "{session_id}">>, endpoint |-> "stop_session"],
      [method |-> "POST", path |-> <<"sessions", "{session_id}", "heartbeat">>, endpoint |-> "session_heartbeat"],
      [method |-> "GET", path |-> <<"{stream_id}">>, endpoint |-> "get_stream"],
      [method |-> "DELETE", path |-> <<"{stream_id}">>, endpoint |-> "withdraw_stream"],
      [method |-> "POST", path |-> <<"{stream_id}", "heartbeat">>, endpoint |-> "stream_heartbeat"],
      [method |-> "POST", path |-> <<"{stream_id}", "request">>, endpoint |-> "request_stream"]>>

routing_router ==
    <<[method |-> "GET", path |-> <<"state">>, endpoint |-> "get_routing_state"],
      [method |-> "GET", path |-> <<"devices">>, endpoint |-> "list_routing_devices"],
      [method |-> "GET", path |-> <<"devices", "{device_id}">>, endpoint |-> "get_routing_device"],
      [method |-> "POST", path |-> <<"devices">>, endpoint |-> "create_routing_device"],
      [method |-> "PUT", path |-> <<"devices", "{device_id}">>, endpoint |-> "update_routing_device"],
      [method |-> "DELETE", path |-> <<"devices", "{device_id}">>, endpoint |-> "delete_routing_device"],
      [method |-> "PUT", path |-> <<"devices", "positions">>, endpoint |-> "update_device_positions"],
      [method |-> "GET", path |-> <<"routes">>, endpoint |-> "list_routes"],
      [method |-> "POST", path |-> <<"routes">>, endpoint |-> "create_route"],
      [method |-> "DELETE", path |-> <<"routes", "{route_id}">>, endpoint |-> "delete_route"],
      [method |-> "DELETE", path |-> <<"routes">>, endpoint |-> "delete_route_by_ports"],
      [method |-> "PUT", path |-> <<"routes">>, endpoint |-> "replace_all_routes"],
      [method |-> "DELETE", path |-> <<"routes", "all">>, endpoint |-> "clear_all_routes"],
      [method |-> "GET", path |-> <<"presets">>, endpoint |-> "list_presets"],
      [method |-> "GET", path |-> <<"presets", "{preset_id}">>, endpoint |-> "get_preset"],
      [method |-> "POST", path |-> <<"presets">>, endpoint |-> "create_preset"],
      [method |-> "PUT", path |-> <<"presets", "{preset_id}">>, endpoint |-> "update_preset"],
      [method |-> "DELETE", path |-> <<"presets", "{preset_id}">>, endpoint |-> "delete_preset"],
      [method |-> "POST", path |-> <<"presets", "{preset_id}", "save">>, endpoint |-> "save_current_to_preset"],
      [method |-> "POST", path |-> <<"presets", "{preset_id}", "recall">>, endpoint |-> "recall_preset"]>>

entity_router ==
    <<[method |-> "GET", path |-> <<"types">>, endpoint |-> "list_entity_types"],
      [method |-> "POST", path |-> <<"types">>, endpoint |-> "create_entity_type"],
      [method |-> "GET", path |-> <<"types", "{type_id}">>, endpoint |-> "get_entity_type"],
      [method |-> "GET", path |-> <<"types", "by-name", "{name}">>, endpoint |-> "get_entity_type_by_name"],
      [method |-> "PUT", path |-> <<"types", "{type_id}">>, endpoint |-> "update_entity_type"],
      [method |-> "DELETE", path |-> <<"types", "{type_id}">>, endpoint |-> "delete_entity_type"],
      [method |-> "GET", path |-> <<>>, endpoint |-> "list_entities"],
      [method |-> "POST", path |-> <<>>, endpoint |-> "create_entity"],
      [method |-> "GET", path |-> <<"tree">>, endpoint |-> "get_entity_tree"],
      [method |-> "GET", path |-> <<"{entity_id}", "variables">>, endpoint |-> "get_entity_variables"],
      [method |-> "PUT", path |-> <<"{entity_id}", "variables">>, endpoint |-> "set_entity_variables"],
      [method |-> "POST", path |-> <<"{entity_id}", "variables">>, endpoint |-> "add_variable"],
      [method |-> "PUT", path |-> <<"{entity_id}", "variables", "{variable_name}">>, endpoint |-> "update_variable"],
      [method |-> "DELETE", path |-> <<"{entity_id}", "variables", "{variable_name}">>, endpoint |-> "delete_variable"],
      [method |-> "POST", path |-> <<"{entity_id}", "variables", "validate">>, endpoint |-> "validate_state_against_variables"],
      [method |-> "GET", path |-> <<"{entity_id}">>, endpoint |-> "get_entity"],
      [method |-> "GET", path |-> <<"by-slug", "{slug}">>, endpoint |-> "get_entity_by_slug"],
      [method |-> "PUT", path |-> <<"{entity_id}">>, endpoint |-> "update_entity"],
      [method |-> "DELETE", path |-> <<"{entity_id}">>, endpoint |-> "delete_entity"],
      [method |-> "GET", path |-> <<"{entity_id}", "ancestors">>, endpoint |-> "get_ancestors"],
      [method |-> "GET", path |-> <<"{entity_id}", "descendants">>, endpoint |-> "get_descendants"],
      [method |-> "GET", path |-> <<"{entity_id}", "siblings">>, endpoint |-> "get_siblings"],
      [method |-> "GET", path |-> <<"{entity_id}", "state">>, endpoint |-> "get_state"],
      [method |-> "PATCH", path |-> <<"{entity_id}", "state">>, endpoint |-> "update_state"],
      [method |-> "PUT", path |-> <<"{entity_id}", "state">>, endpoint |-> "set_state"],
      [method |-> "POST", path |-> <<"state", "bulk-get">>, endpoint |-> "bulk_get_state"],
      [method |-> "POST", path |-> <<"state", "bulk-update">>, endpoint |-> "bulk_update_state"]>>

Routers == [streams |-> stream_router, routing |-> routing_router, entities |-> entity_router]

\* the endpoint a router calls for a request: that of the first route that
\* matches in full, "405" when only paths match, "404" when nothing does
dispatch(table, method, path) ==
    LET param(segment) == SubSeq(segment, 1, 1) = "{"
        matches(route) ==
            /\ Len(route.path) = Len(path)
            /\ \A i \in 1..Len(path) : param(route.path[i]) \/ route.path[i] = path[i]
        full == {i \in 1..Len(table) : matches(table[i]) /\ table[i].method = method}
        partial == {i \in 1..Len(table) : matches(table[i])}
    IN  IF full # {} THEN table[CHOOSE i \in full : \A j \in full : i <= j].endpoint
        ELSE IF partial # {} THEN "405" ELSE "404"

Methods == {"GET", "POST", "PUT", "PATCH", "DELETE"}

\* the paths of the requests: the paths of the routes themselves (for a route
\* with parameters its pattern stands for a request with such values), the
\* static paths, and paths that name an id
RequestPaths(table) ==
    {table[i].path : i \in 1..Len(table)}
      \cup {<<"u1">>, <<"u1", "u2">>, <<"devices", "u1">>, <<"routes", "u1">>,
            <<"sessions", "u1">>, <<"u1", "state">>, <<"no", "such", "path", "here">>}

\* one HTTP request reaches a router
handle_request(router, method, path) ==
    /\ http' = [router |-> router, method |-> method, path |-> path,
                endpoint |-> dispatch(Routers[router], method, path)]
    /\ UNCHANGED <<stateVars, hierVars, streamVars, logVars, routeVars, relayVars,
                   previewVars, nats, mqtt>>

(***************************************************************************)
(* Specifications                                                          *)
(***************************************************************************)
HierIdle ==
    /\ entities = <<>>
    /\ usedIds = {}
    /\ hresp = [op |-> "none", id |-> NULL, code |-> 0]

StreamIdle ==
    /\ streams = <<>>
    /\ streamTtl = <<>>
    /\ streamsAll = {}
    /\ streamsByType = [t \in StreamTypes |-> {}]
    /\ sessions = <<>>
    /\ sessionTtl = <<>>
    /\ sessionsAll = {}
    /\ sessionsByStream = [s \in StreamIds |-> {}]
    /\ calls = [c \in Calls |-> IdleCall]
    /\ sresp = NoResponse
    /\ streamCount = 0
    /\ sessionCount = 0
    /\ fresh = <<>>
    /\ lapsed = {}

LogIdle ==
    /\ tasks = <<>>
    /\ stream_sessions = <<>>

RelayIdle ==
    relay = [op |-> "none", path |-> <<>>, body |-> "", qos |-> 0,
             connected |-> FALSE, raised |-> ""]

PreviewIdle == preview = NoPreview
HttpIdle == http = [router |-> "", method |-> "", path |-> <<>>, endpoint |-> ""]

RouteIdle ==
    /\ routing_devices = <<>>
    /\ routes = <<>>
    /\ route_presets = <<>>
    /\ rresp = [op |-> "none", code |-> 0]

StateIdle ==
    /\ entState = [e \in Ents |-> EmptyDict]
    /\ history = <<>>
    /\ req = [r \in Slots |-> IdleReq]
    /\ entState0 = entState

InitState ==
    /\ entState \in [Ents -> Dicts]
    /\ entState["e2"] = EmptyDict
    /\ history = <<>>
    /\ nats = <<>>
    /\ mqtt = <<>>
    /\ req = [r \in Slots |-> IdleReq]
    /\ entState0 = entState
    /\ HierIdle
    /\ StreamIdle
    /\ LogIdle
    /\ RouteIdle
    /\ RelayIdle
    /\ PreviewIdle
    /\ HttpIdle

\* two clients writing the state of entity e1
InitConc ==
    /\ entState \in [Ents -> FlatDicts]
    /\ entState["e2"] = EmptyDict
    /\ history = <<>>
    /\ nats = <<>>
    /\ mqtt = <<>>
    /\ req = [r \in Slots |-> IdleReq]
    /\ entState0 = entState
    /\ HierIdle
    /\ StreamIdle
    /\ LogIdle
    /\ RouteIdle
    /\ RelayIdle
    /\ PreviewIdle
    /\ HttpIdle

NextConc ==
    \E r \in Slots :
        \/ \E body \in FlatDicts : update_state_select(r, "e1", body)
        \/ \E config \in CollectionConfigs : update_state(r, config)
        \/ \E body \in FlatDicts : set_state_select(r, "e1", body)
        \/ \E config \in CollectionConfigs : set_state(r, config)

Init == InitState

Next ==
    \/ \E e \in Ents \cup {Missing}, body \in Dicts : update_state_select(1, e, body)
    \/ \E config \in CollectionConfigs : update_state(1, config)
    \/ \E e \in Ents \cup {Missing}, body \in Dicts : set_state_select(1, e, body)
    \/ \E config \in CollectionConfigs : set_state(1, config)
    \/ \E items \in BulkItems : bulk_update_state(1, items)

Spec == Init /\ [][Next]_vars

SpecConc == InitConc /\ [][NextConc]_vars


InitHier ==
    /\ StateIdle
    /\ HierIdle
    /\ StreamIdle
    /\ LogIdle
    /\ RouteIdle
    /\ RelayIdle
    /\ PreviewIdle
    /\ HttpIdle
    /\ nats = <<>>
    /\ mqtt = <<>>

NextHier ==
    \/ \E e \in EntityIds \cup {NoEntity} : get_ancestors(e)
    \/ \E natsFailAt \in LifecycleFailures, mqttFailAt \in LifecycleFailures :
        \/ \E t \in EntityTypes \cup {NoType}, p \in EntityIds \cup {NULL, NoEntity} :
              create_entity(t, p, natsFailAt, mqttFailAt)
        \/ \E e \in EntityIds \cup {NoEntity},
              parent \in {Unset} \cup {SetTo(p) : p \in EntityIds \cup {NULL, NoEntity}} :
              update_entity(e, parent, natsFailAt, mqttFailAt)
        \/ \E e \in EntityIds \cup {NoEntity}, cascade \in BOOLEAN :
              delete_entity(e, cascade, natsFailAt, mqttFailAt)

SpecHier == InitHier /\ [][NextHier]_vars

InitStream ==
    /\ StateIdle
    /\ HierIdle
    /\ StreamIdle
    /\ LogIdle
    /\ RouteIdle
    /\ RelayIdle
    /\ PreviewIdle
    /\ HttpIdle
    /\ nats = <<>>
    /\ mqtt = <<>>

NextStream ==
    \/ \E t \in StreamTypes, natsUp \in BOOLEAN : advertise_stream(t, natsUp)
    \/ \E c \in Calls, s \in StreamIds : withdraw_stream_record(c, s)
    \/ \E c \in Calls, natsUp \in BOOLEAN : withdraw_stream_sessions(c, natsUp)
    \/ \E t \in StreamTypes \cup {""} : list_streams(t)
    \/ \E c \in Calls, s \in StreamIds, natsUp \in BOOLEAN :
          request_stream_send(c, s, natsUp) /\ UNCHANGED previewVars
    \/ \E c \in Calls, natsUp \in BOOLEAN, offer_data \in Replies :
          request_stream_reply(c, "reply", offer_data, natsUp, FALSE)
             /\ UNCHANGED previewVars
    \/ \E c \in Calls, outcome \in {"timeout", "error"} :
          request_stream_reply(c, outcome, EmptyHash, TRUE, FALSE)
             /\ UNCHANGED previewVars
    \/ \E s \in StreamIds \cup {""} : list_sessions(s)
    \/ \E x \in SessionIds, natsUp \in BOOLEAN : stop_session(x, natsUp, FALSE)
    \/ \E c \in Calls, s \in StreamIds : refresh_stream_ttl_exists(c, s)
    \/ \E c \in Calls, natsUp \in BOOLEAN : refresh_stream_ttl_write(c, natsUp)
    \/ \E x \in SessionIds : refresh_session_ttl(x) /\ UNCHANGED previewVars
    \/ Tick

SpecStream == InitStream /\ [][NextStream]_vars

\* the stream routes with a session of the durable store, and the history
\* tasks they start
NextHistory ==
    \/ \E t \in StreamTypes : advertise_stream(t, TRUE)
    \/ \E c \in Calls, s \in StreamIds : withdraw_stream_record(c, s)
    \/ \E c \in Calls : withdraw_stream_sessions(c, TRUE)
    \/ \E c \in Calls, s \in StreamIds :
          request_stream_send(c, s, TRUE) /\ UNCHANGED previewVars
    \/ \E c \in Calls, offer_data \in Replies :
          request_stream_reply(c, "reply", offer_data, TRUE, TRUE)
             /\ UNCHANGED previewVars
    \/ \E x \in SessionIds : stop_session(x, TRUE, TRUE)
    \/ \E x \in SessionIds : refresh_session_ttl(x) /\ UNCHANGED previewVars
    \/ \E x \in SessionIds : _log_session_start(x)
    \/ \E x \in SessionIds : _log_session_end(x)
    \/ Tick

SpecHistory == InitStream /\ [][NextHistory]_vars

NextBridge ==
    \/ \E topic \in MqttTopics, body \in Bodies, qos \in 0..2 :
          on_mqtt_message(topic, body, qos)
    \/ \E subject \in ToMqttSubjects, body \in Bodies, connected \in BOOLEAN :
          nats_message_handler(subject, body, connected)

SpecBridge == InitStream /\ [][NextBridge]_vars

\* the preview of a stream next to its publisher's advertise, heartbeats
\* and withdraw
NextPreview ==
    \/ \E t \in StreamTypes : advertise_stream(t, TRUE)
    \/ \E c \in Calls, s \in StreamIds : withdraw_stream_record(c, s)
    \/ \E c \in Calls : withdraw_stream_sessions(c, TRUE)
    \/ \E c \in Calls, s \in StreamIds : refresh_stream_ttl_exists(c, s)
    \/ \E c \in Calls : refresh_stream_ttl_write(c, TRUE)
    \/ \E s \in StreamIds : stream_preview(s)
    \/ _connection_info_generator
    \/ _connection_info_generator_heartbeat
    \/ disconnect
    \/ \E c \in Calls, natsUp \in BOOLEAN : _proxy_generator_bind(c, natsUp)
    \/ \E natsUp \in BOOLEAN, offer_data \in Replies :
          _proxy_generator_offer("reply", offer_data, natsUp)
    \/ _proxy_generator_offer("error", EmptyHash, TRUE)
    \/ /\ Len(preview.events) < MaxEvents
       /\ \E packet \in Datagrams : _proxy_generator_recv(packet, 0)
    \/ /\ Len(preview.events) < MaxEvents
       /\ _proxy_generator_timeout
    \/ _proxy_generator_raise
    \/ _proxy_generator_return

SpecPreview == InitStream /\ [][NextPreview]_vars

\* the receive loop of a preview by the clock: the rounds of a proxy whose
\* datagrams come at once or after 4 seconds, or not at all
MaxRounds == 9
ClockDatagrams == {Packed(input) : input \in {i \in SpectrumInputs : i.power_db = <<>>}}
NextPreviewClock ==
    \/ advertise_stream("sensor", TRUE)
    \/ \E c \in Calls, s \in StreamIds : withdraw_stream_record(c, s)
    \/ \E c \in Calls : withdraw_stream_sessions(c, TRUE)
    \/ \E s \in StreamIds : stream_preview(s)
    \/ disconnect
    \/ \E c \in Calls : _proxy_generator_bind(c, TRUE)
    \/ \E offer_data \in Replies : _proxy_generator_offer("reply", offer_data, TRUE)
    \/ /\ Len(preview.events) < MaxRounds
       /\ \E packet \in ClockDatagrams, d \in RecvDelays : _proxy_generator_recv(packet, d)
    \/ /\ Len(preview.events) < MaxRounds
       /\ _proxy_generator_timeout
    \/ _proxy_generator_raise
    \/ _proxy_generator_return

SpecPreviewClock == InitStream /\ [][NextPreviewClock]_vars

\* requests to the routers
NextHttp ==
    \E router \in DOMAIN Routers, method \in Methods :
        \E path \in RequestPaths(Routers[router]) : handle_request(router, method, path)

SpecHttp == InitStream /\ [][NextHttp]_vars

NextRoute ==
    \/ \E i \in SUBSET InputPorts, o \in SUBSET OutputPorts :
          create_routing_device(i, o)
    \/ \E d \in DeviceIds, update_data \in RoutingDeviceUpdates :
          update_routing_device(d, update_data)
    \/ \E route \in RouteCreates : create_route(route)
    \/ \E row \in RouteRows : delete_route(row)
    \/ \E bulk \in RouteBulkUpdates : replace_all_routes(bulk)
    \/ create_preset
    \/ \E p \in PresetIds : update_preset(p)
    \/ \E p \in PresetIds : delete_preset(p)
    \/ \E p \in PresetIds : save_current_to_preset(p)
    \/ \E p \in PresetIds : recall_preset(p)

SpecRoute == InitStream /\ [][NextRoute]_vars


(***************************************************************************)
(* Claims on state writes (Spec)                                           *)
(***************************************************************************)
\* a finished state write to an entity that exists
DoneWrite(r) ==
    /\ req[r].pc = "done"
    /\ req[r].kind \in {"patch", "put", "bulk"}
    /\ req[r].target \in Ents

\* result is the deep merge of update into previous, key by key
RECURSIVE IsDeepMergeOf(_, _, _)
IsDeepMergeOf(result, previous, update) ==
    /\ DOMAIN result = DOMAIN previous \cup DOMAIN update
    /\ \A k \in DOMAIN update :
          IF k \in DOMAIN previous /\ IsDict(previous[k]) /\ IsDict(update[k])
          THEN /\ IsDict(result[k])
               /\ IsDeepMergeOf(result[k].o, previous[k].o, update[k].o)
          ELSE result[k] = update[k]
    /\ \A k \in DOMAIN previous \ DOMAIN update : result[k] = previous[k]

\* C1: a PATCH stores the deep merge of the update into the previous state:
\* at every key of the update, the recursive merge when both sides are
\* objects and the update's value otherwise (null is a value); every other
\* key keeps its value; merging {} changes nothing.
C1_PatchStoresDeepMerge ==
    \A r \in Slots :
        (DoneWrite(r) /\ req[r].kind = "patch") =>
            /\ IsDeepMergeOf(req[r].new, req[r].prev, req[r].body)
            /\ entState[req[r].target] = req[r].new
            /\ (req[r].body = EmptyDict => req[r].new = req[r].prev)

\* a PATCH that merged two objects key by key, kept an untouched key and
\* stored a null
C1_Witness ==
    /\ DoneWrite(1) /\ req[1].kind = "patch"
    /\ req[1].prev = [k \in {"a", "b"} |->
                        IF k = "a" THEN Obj([x \in {"x"} |-> Num(1)]) ELSE PyTrue]
    /\ req[1].body = [k \in {"a"} |-> Obj([y \in {"y"} |-> Num(1)])]
    /\ entState[req[1].target] =
          [k \in {"a", "b"} |->
              IF k = "a" THEN Obj([x \in {"x", "y"} |-> Num(1)]) ELSE PyTrue]

\* C2: the changed key set of a state write is exactly the set of top-level
\* keys whose JSON value differs between the previous and the new state, a
\* key present in only one of them counting as differing.
C2_ChangedKeysExact ==
    \A r \in Slots :
        DoneWrite(r) =>
            req[r].changed =
                {k \in DOMAIN req[r].prev \cup DOMAIN req[r].new :
                    \/ k \notin DOMAIN req[r].prev
                    \/ k \notin DOMAIN req[r].new
                    \/ req[r].prev[k] # req[r].new[k]}

\* C3: a state write that leaves the state as it was publishes nothing,
\* writes no history row, and answers 200.
C3_NoChangeNoEventSuccess ==
    \A r \in Slots :
        (DoneWrite(r) /\ req[r].new = req[r].prev) =>
            /\ nats = <<>>
            /\ mqtt = <<>>
            /\ history = <<>>
            /\ req[r].resp = 200

\* the messages of bus log on path, as a sequence of payloads
PayloadsOn(log, path) ==
    LET RECURSIVE Walk(_)
        Walk(i) == IF i > Len(log) THEN <<>>
                   ELSE (IF log[i].path = path THEN <<log[i].payload>> ELSE <<>>)
                        \o Walk(i + 1)
    IN  Walk(1)

\* C4: a state write with a non-empty changed key set persists the new state
\* and publishes one and the same state_changed payload once on each of the
\* three subjects and once on each of the three topics, and answers 200.
C4_ChangePublishedOnSix ==
    \A r \in Slots :
        (DoneWrite(r) /\ req[r].changed # {}) =>
            LET e == req[r].target
                paths == StateSubjects(TypeOf(e), e)
            IN  /\ entState[e] = req[r].new
                /\ req[r].resp = 200
                /\ \A i \in 1..3 :
                      /\ Len(PayloadsOn(nats, paths[i])) = 1
                      /\ Len(PayloadsOn(mqtt, paths[i])) = 1
                      /\ PayloadsOn(nats, paths[i]) = PayloadsOn(nats, paths[1])
                      /\ PayloadsOn(mqtt, paths[i]) = PayloadsOn(nats, paths[1])
                /\ PayloadsOn(nats, paths[1])[1].current_state = req[r].new

\* C6: a state write that meets a failure of the history write or of a bus
\* publish still persists the new state and answers 200, and a failure on
\* one bus leaves the other bus's three publishes in place.
C6_FailuresIsolated ==
    \A r \in Slots :
        (/\ DoneWrite(r)
         /\ \/ req[r].histFail
            \/ req[r].natsFailAt # 4
            \/ req[r].mqttFailAt # 4) =>
            /\ entState[req[r].target] = req[r].new
            /\ req[r].resp = 200
            /\ (req[r].changed # {} /\ req[r].mqttFailAt = 4) => Len(mqtt) = 3
            /\ (req[r].changed # {} /\ req[r].natsFailAt = 4) => Len(nats) = 3

(***************************************************************************)
(* Claims on concurrent state writes (SpecConc)                            *)
(***************************************************************************)
\* the state request r's write produces when applied to state s
ApplyWrite(r, s) ==
    IF req[r].kind = "patch" THEN deep_merge(s, req[r].body) ELSE req[r].body

\* the (previous_state, current_state) pairs of the events a serial run of
\* the writes i then j from s0 publishes
SerialEvents(i, j, s0) ==
    LET s1 == ApplyWrite(i, s0)
        s2 == ApplyWrite(j, s1)
    IN  (IF s1 # s0 THEN <<[p |-> s0, c |-> s1]>> ELSE <<>>)
        \o (IF s2 # s1 THEN <<[p |-> s1, c |-> s2]>> ELSE <<>>)

\* C5: two state writes to one entity that were in flight together leave the
\* state that applying them one after the other in some order leaves, and
\* the state_changed events published for the entity are those of that
\* serial order, in that order.
C5_SerialWrites ==
    (\A r \in Slots : DoneWrite(r) /\ req[r].target = "e1") =>
        \E i, j \in Slots :
            /\ i # j
            /\ entState["e1"] = ApplyWrite(j, ApplyWrite(i, entState0["e1"]))
            /\ LET evs == PayloadsOn(nats, StateSubjects(TypeOf("e1"), "e1")[1])
                   want == SerialEvents(i, j, entState0["e1"])
               IN  /\ Len(evs) <= Len(want)
                   /\ \A k \in DOMAIN evs :
                         /\ evs[k].previous_state = want[k].p
                         /\ evs[k].current_state = want[k].c

(***************************************************************************)
(* Claims on the entity hierarchy (SpecHier)                               *)
(***************************************************************************)
\* C7: no entity is in its own transitive parent chain.
C7_NoEntityInOwnChain ==
    \A e \in DOMAIN entities : e \notin AncestorsOf(entities, e)

(***************************************************************************)
(* Claims on the stream registry and the negotiator (SpecStream)           *)
(***************************************************************************)
\* C8: an advertised stream that has not been withdrawn is returned by
\* get_stream and by list_streams as long as every heartbeat has arrived less
\* than STREAM_TTL seconds after the advertise or the heartbeat before it;
\* once STREAM_TTL seconds have passed without heartbeat, get_stream answers
\* 404 and list_streams does not return it, whatever heartbeat comes later.
C8_LiveWhileHeartbeats ==
    \A s \in DOMAIN fresh :
        IF s \notin lapsed
        THEN /\ get_stream_status(s) = 200
             /\ get_stream(s).id = s
             /\ \E r \in list_streams_result("") : r.id = s
        ELSE /\ get_stream_status(s) = 404
             /\ \A r \in list_streams_result("") : r.id # s

\* the step in which a call of withdraw_stream returns True
WithdrawReturns(c) ==
    /\ calls[c].op = "withdraw_stream" /\ calls[c].pc = "sessions"
    /\ calls'[c].pc = "idle"

\* C9: when withdraw_stream(s) returns True, get_stream(s) returns nothing, s
\* is in neither streams:all nor a by-type index, no session record has
\* stream_id s, no session of s is in sessions:all or returned by
\* list_sessions, and the session index of s is gone; the step changes no
\* other stream and no session of another stream.
C9_WithdrawRemovesStreamAndSessions ==
    [][\A c \in Calls, s \in StreamIds :
          (WithdrawReturns(c) /\ calls[c].stream_id = s) =>
              /\ ~get_stream(s)'.found
              /\ s \notin streamsAll'
              /\ \A t \in StreamTypes : s \notin streamsByType'[t]
              /\ \A x \in DOMAIN sessions' : HashGet(sessions'[x], "stream_id", "") # s
              /\ \A x \in sessionsAll' \cap DOMAIN sessions' :
                    HashGet(sessions'[x], "stream_id", "") # s
              /\ \A r \in list_sessions_result("")' : r.stream_id # s
              /\ sessionsByStream'[s] = {}
              /\ \A s2 \in DOMAIN streams \ {s} :
                    s2 \in DOMAIN streams' /\ streams'[s2] = streams[s2]
              /\ \A x \in DOMAIN sessions :
                    HashGet(sessions[x], "stream_id", "") # s =>
                        x \in DOMAIN sessions' /\ sessions'[x] = sessions[x]
      ]_vars

SessionWritten ==
    \/ DOMAIN sessions' \ DOMAIN sessions # {}
    \/ sessionsAll' \ sessionsAll # {}
    \/ \E s \in StreamIds : sessionsByStream'[s] \ sessionsByStream[s] # {}

SessionStartedPublished ==
    \E i \in 1..Len(nats') : nats'[i].path = <<"maestra", "stream", "session", "started">>

RepliedAccepted(reply) == "accepted" \in DOMAIN reply /\ reply.accepted = TRUE

SessionStartedEvents ==
    {i \in 1..Len(nats') :
        nats'[i].path = <<"maestra", "stream", "session", "started">>}

\* the step in which request_stream call c gets a reply with accepted true
AcceptedReplyStep(c) ==
    /\ calls[c].op = "request_stream" /\ calls[c].pc = "waiting"
    /\ calls'[c].pc = "idle"
    /\ sresp'.op = "request_stream" /\ sresp'.outcome = "reply"
    /\ RepliedAccepted(sresp'.reply)

\* the value of an offer field: the reply's, or else the one advertised
OfferField(reply, field, advertised) ==
    IF field \in DOMAIN reply THEN reply[field] ELSE advertised

\* C11: when the publisher replies accepted true, request_stream creates
\* exactly one new session, with a session_id not in use before, status
\* active and the requested stream_id, adds it to sessions:all and to the
\* stream's session index with a TTL of SESSION_TTL, publishes one
\* session_started event, and returns an offer that carries the session_id
\* and stream_id of the new session and the protocol, publisher_address and
\* publisher_port of the reply, each falling back to the value the stream
\* advertised when the reply omits it.
C11_AcceptedReplyOpensSession ==
    [][\A c \in Calls : AcceptedReplyStep(c) =>
          \E x \in SessionIds :
             /\ x \notin DOMAIN sessions /\ x \notin sessionsAll
             /\ \A s \in StreamIds : x \notin sessionsByStream[s]
             /\ DOMAIN sessions' = DOMAIN sessions \cup {x}
             /\ \A y \in DOMAIN sessions : sessions'[y] = sessions[y]
             /\ sessions'[x].session_id = x
             /\ sessions'[x].status = "active"
             /\ sessions'[x].stream_id = calls[c].stream_id
             /\ sessionTtl'[x] = SESSION_TTL
             /\ sessionsAll' = sessionsAll \cup {x}
             /\ sessionsByStream' =
                  [sessionsByStream EXCEPT ![calls[c].stream_id] = @ \cup {x}]
             /\ Cardinality(SessionStartedEvents) = 1
             /\ \A i \in SessionStartedEvents : nats'[i].payload.session_id = x
             /\ sresp'.resp = "offer"
             /\ sresp'.offer.session_id = x
             /\ sresp'.offer.stream_id = calls[c].stream_id
             /\ sresp'.offer.protocol =
                  OfferField(sresp'.reply, "protocol", Advert.protocol)
             /\ sresp'.offer.publisher_address =
                  OfferField(sresp'.reply, "address", Advert.address)
             /\ sresp'.offer.publisher_port =
                  OfferField(sresp'.reply, "port", Advert.port)
      ]_vars

\* C12: in every reachable state, every session that list_sessions returns
\* names a stream whose record is in the store; a withdraw_stream that
\* completes while a request_stream waits for the publisher's reply is one
\* of the cases.
C12_SessionsNameLiveStreams ==
    \A session \in list_sessions_result("") : session.stream_id \in DOMAIN streams

\* the record of stream s went with its TTL: s was advertised, nobody
\* withdrew it, and its key is no longer in the store
ExpiredByTtl(s) == s \in DOMAIN fresh /\ s \notin DOMAIN streams

\* C13: once the record of a stream has expired with its TTL, list_sessions
\* returns no session of that stream, whether or not the sessions still get
\* session heartbeats.
C13_ExpiredStreamHasNoSessions ==
    \A s \in StreamIds : ExpiredByTtl(s) =>
        /\ \A session \in list_sessions_result("") : session.stream_id # s
        /\ list_sessions_result(s) = {}

\* the step is a session heartbeat for session x
SessionHeartbeatStep(x) == sresp'.op = "refresh_session_ttl" /\ sresp'.id = x

StopStep(x) == sresp'.op = "stop_session" /\ sresp'.id = x

SessionStoppedEvents ==
    {i \in 1..Len(nats') :
        nats'[i].path = <<"maestra", "stream", "session", "stopped">>}

\* what a stop of the live session x does to the store, and what a stop of
\* a session that is not there does
StopEffect(x) ==
    IF x \in DOMAIN sessions
    THEN /\ status_code(sresp'.resp) = 200
         /\ sessions' = Del(sessions, {x})
         /\ sessionTtl' = Del(sessionTtl, {x})
         /\ sessionsAll' = sessionsAll \ {x}
         /\ \A s \in StreamIds : sessionsByStream'[s] = sessionsByStream[s] \ {x}
         /\ UNCHANGED <<streams, streamTtl, streamsAll, streamsByType>>
         /\ \A i \in SessionStoppedEvents : nats'[i].payload.session_id = x
    ELSE /\ status_code(sresp'.resp) = 404
         /\ UNCHANGED storeVars
         /\ SessionStoppedEvents = {}

\* a stop of x straight after a stop of x that succeeded is not found
SecondStopNotFound(x) ==
    (sresp.op = "stop_session" /\ sresp.id = x /\ sresp.resp = "True")
        => sresp'.resp = "False"

\* C15: stop_session on a live session deletes its record, takes it out of
\* sessions:all and of its stream's session index and publishes one
\* session_stopped event, and leaves the stream and the other sessions as
\* they were; on a session that is missing or has expired it answers not
\* found and changes nothing, so a second stop of the same session is not
\* found.
C15_StopRemovesSession ==
    [][\A x \in SessionIds : StopStep(x) =>
          /\ StopEffect(x)
          /\ SecondStopNotFound(x)
          /\ x \in DOMAIN sessions => Cardinality(SessionStoppedEvents) = 1
      ]_vars

\* C15, amended: as C15, with the session_stopped event published once when
\* the bus connection is open at the stop and not at all when it is closed.
C15_StopRemovesSessionBusOpen ==
    [][\A x \in SessionIds : StopStep(x) =>
          /\ StopEffect(x)
          /\ SecondStopNotFound(x)
          /\ x \in DOMAIN sessions =>
                \E db_session \in BOOLEAN :
                   /\ stop_session(x, TRUE, db_session) =>
                         Cardinality(SessionStoppedEvents) = 1
                   /\ stop_session(x, FALSE, db_session) =>
                         SessionStoppedEvents = {}
                   /\ \/ stop_session(x, TRUE, db_session)
                      \/ stop_session(x, FALSE, db_session)
      ]_vars

\* x1 has just been stopped and its event published; x2 and the stream are
\* still there
C15_Witness ==
    /\ sresp.op = "stop_session" /\ sresp.id = "x1" /\ sresp.resp = "True"
    /\ "x1" \notin DOMAIN sessions /\ "x1" \notin sessionsAll
    /\ "x2" \in DOMAIN sessions /\ "x2" \in sessionsAll
    /\ sessions["x2"].stream_id \in DOMAIN streams
    /\ "x2" \in sessionsByStream[sessions["x2"].stream_id]
    /\ Len(nats) = 1 /\ nats[1].payload.type = "session_stopped"

\* every history task that was made has run
HistoryWritten == \A t \in DOMAIN tasks : tasks[t] = "done"

\* session x was stopped with stop_session
ExplicitlyStopped(x) == LogTask("end", x) \in DOMAIN tasks

\* C16: once every fire-and-forget history write has completed, the row of a
\* session in the durable history has status stopped, with ended_at and
\* duration_seconds set, exactly when the session was stopped with
\* stop_session, in whatever order the insert and the update ran; a session
\* that ended by TTL or by the withdrawal of its stream keeps status active.
C16_HistoryStoppedIffStopped ==
    HistoryWritten =>
        \A x \in SessionIds : LogTask("start", x) \in DOMAIN tasks =>
            /\ x \in DOMAIN stream_sessions
            /\ stream_sessions[x].status = "stopped" <=> ExplicitlyStopped(x)
            /\ ExplicitlyStopped(x) =>
                  /\ stream_sessions[x].ended_at # "NULL"
                  /\ stream_sessions[x].duration_seconds # "NULL"
            /\ ~ExplicitlyStopped(x) => stream_sessions[x].status = "active"

\* the step ends a stream heartbeat for stream s
StreamHeartbeatEnds(s) == sresp'.op = "refresh_stream_ttl" /\ sresp'.id = s

\* C17: a heartbeat for a live stream rewrites last_heartbeat and sets the
\* TTL of the record to STREAM_TTL, and changes no other field, no other
\* record and no index; a heartbeat for a record that does not exist answers
\* not found and creates no record and no index entry.
C17_HeartbeatTouchesOnlyLiveRecord ==
    [][\A s \in StreamIds : StreamHeartbeatEnds(s) =>
          IF s \in DOMAIN streams
          THEN /\ status_code(sresp'.resp) = 200
               /\ streams' = [streams EXCEPT ![s] = Put(@, "last_heartbeat", "now")]
               /\ streamTtl' = [streamTtl EXCEPT ![s] = STREAM_TTL]
               /\ UNCHANGED <<streamsAll, streamsByType, sessions, sessionTtl,
                              sessionsAll, sessionsByStream>>
          ELSE /\ status_code(sresp'.resp) = 404
               /\ UNCHANGED storeVars
      ]_vars

\* the step ends the request_stream call c
RequestEnds(c) ==
    /\ calls[c].op = "request_stream" /\ calls[c].pc = "waiting"
    /\ calls'[c].pc = "idle"

\* the step is a request_stream that ends where it arrives, for stream s
RequestEndsOnArrival(s) ==
    /\ sresp'.op = "request_stream" /\ sresp'.id = s
    /\ sresp'.outcome = ""

ActiveCopies(route) == Copies(routes, RouteDB(route, NoPreset))

\* the body of replace_all_routes names some route between existing devices
\* twice
NamesTwice(bulk) ==
    \E i, j \in DOMAIN bulk :
        /\ i # j /\ bulk[i] = bulk[j]
        /\ \A k \in DOMAIN bulk :
              {bulk[k].from_device_id, bulk[k].to_device_id}
                  \subseteq DOMAIN routing_devices

\* C19: after any sequence of route creations, deletions, replacements of
\* all routes, preset saves and recalls, no two active routes have the same
\* from_device_id, from_port, to_device_id and to_port; a request that would
\* add a second active route with the values of an existing one is answered
\* with a conflict and adds nothing.
C19_ActiveRoutesUnique ==
    /\ [](\A route \in RouteCreates : ActiveCopies(route) <= 1)
    /\ [][/\ \A route \in RouteCreates :
               (create_route(route) /\ ActiveCopies(route) >= 1) =>
                   rresp'.code = 409 /\ routes' = routes
          /\ \A bulk \in RouteBulkUpdates :
               (replace_all_routes(bulk) /\ NamesTwice(bulk)) =>
                   rresp'.code = 409 /\ routes' = routes
      ]_vars

\* the active routes
ActiveRoutes == {row \in DOMAIN routes : row.preset_id = NoPreset}

\* the ports of a route are declared on its devices
PortsDeclared(route) ==
    /\ route.from_device_id \in DOMAIN routing_devices
    /\ route.to_device_id \in DOMAIN routing_devices
    /\ route.from_port \in routing_devices[route.from_device_id].outputs
    /\ route.to_port \in routing_devices[route.to_device_id].inputs

\* C20: the from_port of every active route is one of the outputs its
\* from_device declares and its to_port one of the inputs its to_device
\* declares; a request that would add a route naming a port that is not
\* declared is answered with a validation error and adds nothing.
C20_ActiveRoutesUseDeclaredPorts ==
    /\ [](\A row \in ActiveRoutes : PortsDeclared(row))
    /\ [][/\ \A route \in RouteCreates :
               (/\ create_route(route)
                /\ {route.from_device_id, route.to_device_id}
                      \subseteq DOMAIN routing_devices
                /\ ~PortsDeclared(route)) =>
                   rresp'.code = 400 /\ routes' = routes
          /\ \A bulk \in RouteBulkUpdates :
               (/\ replace_all_routes(bulk)
                /\ \A k \in DOMAIN bulk :
                      {bulk[k].from_device_id, bulk[k].to_device_id}
                          \subseteq DOMAIN routing_devices
                /\ \E i \in DOMAIN bulk : ~PortsDeclared(bulk[i])) =>
                   rresp'.code \in {400, 422} /\ routes' = routes
      ]_vars

\* the presets marked active
ActivePresets == {p \in DOMAIN route_presets : route_presets[p].is_active}

\* C21: after any sequence of preset create, update, delete, save and recall
\* operations at most one preset has is_active = true, and immediately after
\* a successful recall of preset P, P is active and every other preset, the
\* previously active one included, is inactive.
C21_AtMostOnePresetActive ==
    /\ [](Cardinality(ActivePresets) <= 1)
    /\ [][\A p \in PresetIds :
             (recall_preset(p) /\ rresp'.code = 200) => ActivePresets' = {p}
      ]_vars

\* a recall has just made p2 the active preset and p1, which exists, is not
C21_Witness ==
    /\ rresp = RouteResponse("recall_preset", 200)
    /\ DOMAIN route_presets = {"p1", "p2"}
    /\ ActivePresets = {"p2"}

\* the rows of the table that belong to preset_id (NoPreset: the active ones)
RoutesOf(table, preset_id) ==
    [r \in {q \in DOMAIN table : q.preset_id = preset_id} |-> table[r]]

\* the (from_device_id, from_port, to_device_id, to_port) of these rows
TuplesOf(table, preset_id) ==
    {[from_device_id |-> r.from_device_id, from_port |-> r.from_port,
      to_device_id |-> r.to_device_id, to_port |-> r.to_port] :
        r \in DOMAIN RoutesOf(table, preset_id)}

\* C22: saving into preset P replaces P's routes with a copy of the active
\* routes (same set of tuples) and leaves the active routes and every other
\* preset's routes unchanged; recalling P replaces the active routes with a
\* copy of P's routes and leaves P's routes and every other preset's routes
\* unchanged; so a recall of P that follows a save into P leaves the set of
\* active route tuples unchanged.
C22_SaveAndRecallCopy ==
    [][\A p \in PresetIds :
         /\ (save_current_to_preset(p) /\ rresp'.code = 200) =>
                /\ TuplesOf(routes', p) = TuplesOf(routes, NoPreset)
                /\ \A q \in (PresetIds \cup {NoPreset}) \ {p} :
                      RoutesOf(routes', q) = RoutesOf(routes, q)
         /\ (recall_preset(p) /\ rresp'.code = 200) =>
                /\ TuplesOf(routes', NoPreset) = TuplesOf(routes, p)
                /\ \A q \in PresetIds : RoutesOf(routes', q) = RoutesOf(routes, q)
         /\ (/\ rresp = RouteResponse("save_current_to_preset", 200)
             /\ TuplesOf(routes, p) = TuplesOf(routes, NoPreset)
             /\ recall_preset(p) /\ rresp'.code = 200) =>
                TuplesOf(routes', NoPreset) = TuplesOf(routes, NoPreset)
      ]_vars

\* a recall has copied the one route of p1 into the active table while p2
\* holds another route
C22_Witness ==
    /\ rresp = RouteResponse("recall_preset", 200)
    /\ DOMAIN route_presets = {"p1", "p2"}
    /\ TuplesOf(routes, "p1") # {}
    /\ TuplesOf(routes, NoPreset) = TuplesOf(routes, "p1")
    /\ TuplesOf(routes, "p2") # {}
    /\ TuplesOf(routes, "p2") # TuplesOf(routes, "p1")

\* the rows a DELETE of entity_id has to remove
GoneWith(entity_id, cascade) ==
    IF cascade THEN DescendantsOf(entities, entity_id) \cup {entity_id}
    ELSE {entity_id}

\* what the claim says a DELETE of entity_id leaves behind
DeleteEffect(entity_id, cascade) ==
    /\ DOMAIN entities' = DOMAIN entities \ GoneWith(entity_id, cascade)
    /\ \A e \in DOMAIN entities' :
          /\ entities'[e].type = entities[e].type
          /\ entities'[e].parent =
                IF ~cascade /\ entities[e].parent = entity_id THEN NULL
                ELSE entities[e].parent
          /\ entities'[e].parent \notin GoneWith(entity_id, cascade)

\* C23: deleting entity E with cascade=true removes E and all of its
\* transitive descendants and nothing else; with cascade=false it removes only
\* E and sets parent_id to null on exactly E's direct children, leaving every
\* other entity and every other parent link unchanged; in both cases no
\* remaining entity has a deleted entity as its parent.
C23_DeleteCascadesOrOrphans ==
    [][\A e \in EntityIds, cascade \in BOOLEAN :
         (/\ e \in DOMAIN entities
          /\ \E natsFailAt, mqttFailAt \in LifecycleFailures :
                delete_entity(e, cascade, natsFailAt, mqttFailAt))
            => DeleteEffect(e, cascade)
      ]_vars

\* C24: a bulk update processes every slug of the request whatever happens
\* to the others: the result map has exactly one entry per requested slug,
\* "updated" with the deep-merged state persisted when an entity has the
\* slug and "not_found" otherwise, and a slug that is not found neither
\* prevents nor undoes the updates of the other slugs.
C24_BulkUpdateCoversEverySlug ==
    [][\A r \in Slots, items \in BulkItems :
         bulk_update_state(r, items) =>
            /\ req'[r].resp = 200
            /\ DOMAIN req'[r].results = {items[i][1] : i \in DOMAIN items}
            /\ \A i \in DOMAIN items :
                  LET slug == items[i][1]
                  IN  IF slug \in Ents
                      THEN /\ req'[r].results[slug] = "updated"
                           /\ entState'[slug] =
                                 deep_merge(entState[slug], items[i][2])
                      ELSE req'[r].results[slug] = "not_found"
      ]_vars

\* the handler that has just answered hresp' met these publish failures
LifecycleStep(natsFailAt, mqttFailAt) ==
    \/ /\ hresp'.op = "create"
       /\ create_entity(entities'[hresp'.id].type, entities'[hresp'.id].parent,
                        natsFailAt, mqttFailAt)
    \/ /\ hresp'.op = "update"
       /\ \E parent \in {Unset, SetTo(entities'[hresp'.id].parent)} :
             update_entity(hresp'.id, parent, natsFailAt, mqttFailAt)
    \/ /\ hresp'.op = "delete"
       /\ \E cascade \in BOOLEAN :
             delete_entity(hresp'.id, cascade, natsFailAt, mqttFailAt)

\* the kind of event the handler of a response announces, and the type of
\* the entity it has just answered about
KindOf(op) ==
    IF op = "create" THEN "created" ELSE IF op = "update" THEN "updated" ELSE "deleted"

AnnouncedType ==
    IF hresp'.op = "delete" THEN entities[hresp'.id].type
    ELSE entities'[hresp'.id].type

\* message i of the log is the event of this kind for this entity
IsLifecycleEvent(log, i, sep, kind, id, type) ==
    /\ log[i].sep = sep
    /\ log[i].payload.type = "entity_" \o kind
    /\ log[i].payload.entity_slug = id
    /\ log[i].payload.entity_type = type

LifecycleFanOut(log, sep, kind, id, type) ==
    /\ Len(log) <= 2
    /\ \A i \in DOMAIN log : IsLifecycleEvent(log, i, sep, kind, id, type)
    /\ Len(log) >= 1 => log[1].path = <<"maestra", "entity", kind, type, id>>
    /\ Len(log) >= 2 => log[2].path = <<"maestra", "entity", kind>>

C26_MqttRelayedToSubjectTree ==
    [][\A topic \in MqttTopics, body \in Bodies, qos \in 0..2 :
          on_mqtt_message(topic, body, qos) /\ startswith(topic, <<"maestra", "/">>)
          => /\ Len(nats') = 1
             /\ Len(nats'[1].subject) = Len(topic) + 4
             /\ SubSeq(nats'[1].subject, 1, 4) = <<"maestra", ".", "mqtt", ".">>
             /\ \A i \in 1..Len(topic) :
                   nats'[1].subject[i + 4] = IF topic[i] = "/" THEN "." ELSE topic[i]
             /\ nats'[1].data.source = "mqtt"
             /\ nats'[1].data.topic = topic
             /\ nats'[1].data.payload = body
             /\ nats'[1].data.data =
                   IF json_loads(body).ok
                   THEN [json |-> TRUE, value |-> json_loads(body).dumps]
                   ELSE [json |-> FALSE, value |-> body]]_vars

\* C27: every NATS message on maestra.to_mqtt.<rest> is relayed, while the
\* MQTT client is connected, to the MQTT topic <rest> with dots replaced by
\* slashes; the MQTT body is the value of the payload field when the message
\* is a JSON object that has one, and otherwise the whole message: a text
\* that encodes the same JSON document, or the message itself when it is no
\* JSON.
C27_NatsRelayedToTopicTree ==
    [][\A subject \in ToMqttSubjects, body \in Bodies :
          nats_message_handler(subject, body, TRUE)
          => /\ Len(mqtt') = 1
             /\ Len(mqtt'[1].topic) = Len(subject) - 4
             /\ \A i \in 1..(Len(subject) - 4) :
                   mqtt'[1].topic[i] =
                     IF subject[i + 4] = "." THEN "/" ELSE subject[i + 4]
             /\ LET message == json_loads(body)
                IN  IF message.ok /\ message.isdict /\ message.has_payload
                    THEN mqtt'[1].payload = message.payload
                    ELSE IF message.ok
                    THEN /\ json_loads(mqtt'[1].payload).ok
                         /\ json_loads(mqtt'[1].payload).dumps = message.dumps
                    ELSE mqtt'[1].payload = body]_vars

\* a stream is live from its advertise to its withdraw or to the expiry of
\* its record
Live(stream_id) == stream_id \in DOMAIN fresh /\ stream_id \notin lapsed

CONNECTION_INFO_TYPES == {"video", "ndi", "srt", "texture", "spout", "syphon"}

\* C28: the preview of a live stream whose type is video, ndi, srt, texture,
\* spout or syphon is answered with one info event followed only by heartbeat
\* events, binds no socket, sends no request to the publisher and creates no
\* session; the preview of a stream that is not live is answered with 404
\* and creates nothing either.
C28_InfoOnlyPreviewAnd404 ==
    [][/\ \A s \in StreamIds :
            \/ ~stream_preview(s)
            \/ /\ (Live(s) /\ get_stream(s).stream_type \in CONNECTION_INFO_TYPES)
                  => (preview'.status = 200 /\ preview'.pc = "info")
               /\ ~Live(s)
                  => /\ preview'.status = 404 /\ preview'.pc = "done"
                     /\ preview'.sock = "none" /\ preview'.events = <<>>
                     /\ UNCHANGED <<storeVars, calls, sessionCount>>
       /\ (preview' # preview /\ preview'.pc \in {"info", "sleeping"})
          => /\ preview'.sock = "none" /\ preview'.call = 0
             /\ preview'.session_id = ""
             /\ UNCHANGED <<storeVars, calls, sessionCount, nats>>
             /\ \A i \in DOMAIN preview'.events :
                   preview'.events[i].event = IF i = 1 THEN "info" ELSE "heartbeat"
             /\ (preview'.pc = "sleeping" => preview'.events # <<>>)]_vars

\* C29: a preview proxy run that has ended holds no open socket, whichever
\* way it ended: a failed negotiation, the client's disconnect at any
\* await or yield, an exception in the receive loop, or the end of the loop.
C29_SocketClosedWhenRunEnds ==
    preview.pc = "done" => preview.sock # "open"

\* a run that bound its socket, was connected and ended on an exception in
\* the receive loop
C29_Witness ==
    /\ preview.pc = "done" /\ preview.sock = "closed" /\ preview.exit = "error"
    /\ Len(preview.events) >= 2
    /\ preview.events[1].event = "info"
    /\ preview.events[Len(preview.events)].event = "error"

\* C30: every datagram a running preview proxy receives yields exactly one
\* preview event and leaves the proxy running; the event carries the output
\* of the stream type's decoder when the decoder accepts the datagram and
\* the raw fallback (type raw, size, hex of the first 256 bytes) otherwise.
C30_EveryDatagramYieldsOneEvent ==
    [][\A packet \in Datagrams, d \in RecvDelays :
          \/ ~_proxy_generator_recv(packet, d)
          \/ /\ preview'.pc = "receiving" /\ preview'.sock = "open"
             /\ Len(preview'.events) = Len(preview.events) + 1
             /\ LET last == preview'.events[Len(preview'.events)]
                    accepted == /\ preview.stream_type = "sensor"
                                /\ packet.len >= 36 + 4 * packet.fft_size
                                /\ packet.magic = SDRF_MAGIC
                IN  /\ last.event = "preview"
                    /\ IF accepted
                       THEN /\ last.data.type = "sensor"
                            /\ last.data.fft_size = packet.fft_size
                            /\ Len(last.data.power_db) = packet.fft_size
                       ELSE /\ last.data.type = "raw"
                            /\ last.data.size = packet.len
                            /\ last.data.hex =
                                  2 * (IF packet.len < 256 THEN packet.len ELSE 256)]_vars

\* C31: in every router a request whose method and path are those of a
\* route without path parameters is dispatched to that route's handler, never
\* to a route with an {id} parameter of the same method and depth.
C31_StaticRouteWins ==
    [][\A router \in DOMAIN Routers :
         \A i \in 1..Len(Routers[router]) :
            LET route == Routers[router][i]
            IN  (/\ \A k \in 1..Len(route.path) : SubSeq(route.path[k], 1, 1) # "{"
                 /\ handle_request(router, route.method, route.path))
                => http'.endpoint = route.endpoint]_vars

\* the latest event of the preview
LastEvent == preview'.events[Len(preview'.events)]

\* the decoder rejects a packet shorter than the header, with another magic
\* or shorter than header and bins, and the proxy then yields the raw form
RejectsMalformed(packet) ==
    (\/ packet.len < 36
     \/ packet.magic # SDRF_MAGIC
     \/ packet.len < 36 + 4 * packet.fft_size)
    => /\ decode_sdrf(packet) = DecodedNone
       /\ packet.len > 0 => LastEvent.data.type = "raw"

Withdrawn(s) ==
    /\ \E i \in 1..streamCount : StreamIdSeq[i] = s
    /\ s \notin DOMAIN fresh

\* C33: advertise followed by get returns the advertised record; withdraw
\* followed by get returns nothing; a withdraw of a stream that has been
\* withdrawn reports not-found, leaves the records and indexes of the
\* ephemeral store unchanged and publishes no withdrawal event.
C33_AdvertiseGetWithdrawGet ==
    [][\A s \in StreamIds :
         /\ \A t \in StreamTypes, natsUp \in BOOLEAN :
               \/ s # StreamIdSeq[streamCount + 1]
               \/ ~advertise_stream(t, natsUp)
               \/ /\ get_stream(s)'.found
                  /\ get_stream(s)'.id = s
                  /\ get_stream(s)'.stream_type = t
                  /\ get_stream(s)'.protocol = Advert.protocol
                  /\ get_stream(s)'.address = Advert.address
                  /\ get_stream(s)'.port = Advert.port
         /\ \A c \in Calls :
               (WithdrawReturns(c) /\ calls[c].stream_id = s) => ~get_stream(s)'.found
         /\ \A c \in Calls :
               \/ ~Withdrawn(s)
               \/ ~withdraw_stream_record(c, s)
               \/ /\ sresp'.resp = "False"
                  /\ UNCHANGED storeVars
                  /\ nats' = <<>>]_vars

\* C38: whatever the interleaving of a stream heartbeat with a withdraw or
\* an expiry of the same stream, every stream record in the ephemeral store
\* has its identifying fields, and get_stream returns no record without
\* them.
C38_NoPartialStreamRecord ==
    \A s \in StreamIds :
       /\ s \in DOMAIN streams
          => {"id", "stream_type", "address", "port"} \subseteq DOMAIN streams[s]
       /\ get_stream(s).found
          => get_stream(s).id = s /\ get_stream(s).stream_type \in StreamTypes

\* C34: a bulk update commits nothing to the durable store before every slug
\* of the batch has been merged and its events emitted: the only commit is
\* the one after the loop, and the committed states after the request are
\* those before it or those with every slug of the batch applied.
C34_BulkCommitsOnceAfterLoop ==
    [][\A r \in Slots, items \in BulkItems :
         \/ ~bulk_update_state(r, items)
         \/ /\ \A k \in DOMAIN req'[r].commits :
                  req'[r].commits[k] = Len(items) + 1
            /\ req'[r].resp = 200 => req'[r].commits = <<Len(items) + 1>>
            /\ \/ entState' = entState
               \/ \A i \in DOMAIN items :
                     items[i][1] \in Ents
                     => entState'[items[i][1]] =
                          deep_merge(entState[items[i][1]], items[i][2])]_vars

\* the state-write steps of PATCH and PUT under a collection configuration
StateWrite(r, config) == update_state(r, config) \/ set_state(r, config)

\* the history row the write of request r is to leave under verbosity v
HistoryRowOf(r, v) ==
    [entity_slug |-> req[r].target, entity_type |-> TypeOf(req[r].target),
     state |-> req'[r].new,
     previous_state |-> IF v = "verbose" THEN req[r].prev ELSE EmptyDict,
     changed_keys |-> req'[r].changed]

\* the verbosity configured for the entity's device if any, else the one
\* for its entity type, else the global one, else standard
ResolvedVerbosity(config, e) ==
    LET scoped(t, i) == {row \in config : row.scope_type = t /\ row.scope_id = i}
        pick(rows) == (CHOOSE row \in rows : TRUE).verbosity
    IN  IF DeviceOf(e) # NoDevice /\ scoped("device", DeviceOf(e)) # {}
        THEN pick(scoped("device", DeviceOf(e)))
        ELSE IF scoped("entity_type", TypeOf(e)) # {}
        THEN pick(scoped("entity_type", TypeOf(e)))
        ELSE IF scoped("global", NoScope) # {}
        THEN pick(scoped("global", NoScope))
        ELSE "standard"

ReceiveRound(d) ==
    \/ d = RECV_TIMEOUT /\ _proxy_generator_timeout
    \/ d \in RecvDelays /\ \E packet \in ClockDatagrams : _proxy_generator_recv(packet, d)

\* C36: while a preview proxy is in its receive loop, with datagrams flowing
\* or every receive timing out after 5 s, the time since it last refreshed
\* its session's TTL (or entered the loop) stays below the 30 s session TTL,
\* a refresh is made as soon as a round ends more than 10 s after the last,
\* and the session's key does not expire in any round.
C36_SessionRefreshedWithinTtl ==
    [][\A d \in RecvDelays \cup {RECV_TIMEOUT} :
         \/ ~ReceiveRound(d)
         \/ preview.session_id \notin DOMAIN sessions
         \/ /\ preview.since + d < SESSION_TTL
            /\ preview.session_id \in DOMAIN sessions'
            /\ sessionTtl'[preview.session_id] > 0
            /\ sessionTtl'[preview.session_id] >= SESSION_TTL - preview'.since
            /\ preview.since + d > HEARTBEAT_AFTER
               => sessionTtl'[preview.session_id] = SESSION_TTL]_vars

\* a proxy has been in its loop for more than the session TTL, has
\* refreshed its session, and the session is there
C36_Witness ==
    /\ preview.pc = "receiving"
    /\ Len(preview.events) >= 8
    /\ \A i \in 2..Len(preview.events) : preview.events[i].event = "heartbeat"
    /\ preview.session_id \in DOMAIN sessions
    /\ sresp = Response("refresh_session_ttl", preview.session_id, "True")

\* the ids a listing of the index finds expired: in the index, no record
FoundExpired(index, table) == index \ DOMAIN table

\* list_streams(t) leaves no index with an id it found expired
StreamListingCleans(t) ==
    LET index == IF t # "" THEN streamsByType[t] ELSE streamsAll
    IN  \A sid \in FoundExpired(index, streams) :
           /\ sid \notin streamsAll'
           /\ \A ty \in StreamTypes : sid \notin streamsByType'[ty]

\* list_sessions(s) leaves no index with an id it found expired
SessionListingCleans(s) ==
    LET index == IF s # "" THEN sessionsByStream[s] ELSE sessionsAll
    IN  \A sid \in FoundExpired(index, sessions) :
           /\ sid \notin sessionsAll'
           /\ \A st \in StreamIds : sid \notin sessionsByStream'[st]

\* list_streams(t) returns the live streams of the index it consults
StreamListingExact(t) ==
    LET index == IF t # "" THEN streamsByType[t] ELSE streamsAll
    IN  {r.id : r \in list_streams_result(t)} = index \cap DOMAIN streams

\* C37: list_streams returns exactly the streams of the consulted index
\* whose record is still live and drops every stale id it meets from the
\* index sets: after a listing neither streams:all nor a by-type index
\* holds the id of a record found expired; list_sessions does the same for
\* sessions:all and the per-stream session index.
C37_ListingDropsStaleIds ==
    [][/\ \A t \in StreamTypes \cup {""} :
            \/ ~list_streams(t)
            \/ StreamListingExact(t) /\ StreamListingCleans(t)
       /\ \A s \in StreamIds \cup {""} :
            \/ ~list_sessions(s)
            \/ SessionListingCleans(s)]_vars

\* the subscriptions of the bridge: maestra.to_mqtt.> on the subject tree
\* and maestra/# on the topic tree
MatchesToMqtt(subject) ==
    startswith(subject, <<"maestra", ".", "to_mqtt", ".">>) /\ Len(subject) > 4
MatchesMaestraTree(topic) ==
    topic = <<"maestra">> \/ startswith(topic, <<"maestra", "/">>)

\* a subject the bridge would publish on: under maestra.mqtt. and outside
\* its own subscription
EndsTheChain(subject) ==
    /\ startswith(subject, MQTT_TO_NATS_PREFIX \o <<".">>)
    /\ ~MatchesToMqtt(subject)

\* C39: a message on either bus causes a bounded chain of relays: every
\* subject the bridge publishes to on the subject tree starts with
\* maestra.mqtt. and is not matched by its subscription maestra.to_mqtt.>,
\* and so is the subject on which a topic the bridge has published to, and
\* receives again under maestra/#, would go back to the subject tree: what
\* the bridge forwarded to the subject tree is never forwarded back.
C39_NoRelayLoop ==
    [][/\ \A topic \in MqttTopics, body \in Bodies, qos \in 0..2 :
            \/ ~on_mqtt_message(topic, body, qos)
            \/ \A i \in DOMAIN nats' : EndsTheChain(nats'[i].subject)
       /\ \A subject \in ToMqttSubjects, body \in Bodies, connected \in BOOLEAN :
            \/ ~nats_message_handler(subject, body, connected)
            \/ \A i \in DOMAIN mqtt' :
                  MatchesMaestraTree(mqtt'[i].topic)
                  => EndsTheChain(mqtt_topic_to_nats_subject(mqtt'[i].topic))]_vars

\* the bridge has relayed a message to a topic of its own subscription
C39_Witness ==
    /\ relay.op = "nats_message_handler"
    /\ Len(mqtt) = 1
    /\ MatchesMaestraTree(mqtt[1].topic)
    /\ mqtt[1].topic \in MqttTopics

\* the ids of a sequence of rows are all different
NoRowTwice(rows) == \A i, j \in DOMAIN rows : rows[i] = rows[j] => i = j

\* C40: after any sequence of entity create, re-parent and delete
\* operations, the ancestors query and the cascade delete of an existing
\* entity terminate: their recursive descent over the parent links reaches
\* each entity at most once and never comes back to the entity it started
\* from.
C40_HierarchyQueriesTerminate ==
    [][/\ \A e \in EntityIds :
            \/ ~get_ancestors(e)
            \/ e \notin DOMAIN entities
            \/ /\ hresp'.code = 200
               /\ NoRowTwice(ancestors_cte(entities, e))
               /\ \A i \in DOMAIN ancestors_cte(entities, e) :
                     ancestors_cte(entities, e)[i] # e
       /\ \A e \in EntityIds, natsFailAt \in LifecycleFailures,
             mqttFailAt \in LifecycleFailures :
            \/ ~delete_entity(e, TRUE, natsFailAt, mqttFailAt)
            \/ e \notin DOMAIN entities
            \/ /\ hresp'.code = 200
               /\ e \notin DescendantsOf(entities, e)]_vars

====
